---- MODULE Spec2Model ----
(***************************************************************************)
(* A model of the diff engine of src/shared/utils/diff.ts:                 *)
(*   - the similarity scorer (calculateChangeRatio, isSimilarEnough),      *)
(*   - the inline word aligner (buildInlineDiffSegments),                  *)
(*   - the hunk processor (changeToLine, mergeAdjacentLines, processHunk), *)
(*   - the unified diff parser (parseUnifiedDiff),                         *)
(*   - the skip block inserter (insertSkipBlocks),                         *)
(*   - the line counter (countDiffStats) and the file diff handler that    *)
(*     runs the two on a parsed diff,                                      *)
(* and of the version comparison of src/unnamed/part_008:                  *)
(*   - the file tree comparator (flattenTree, compareFileTrees),           *)
(*   - the dependency comparator (compareDependencies),                    *)
(*   - the response builder (countFiles, buildCompareResponse).            *)
(*                                                                         *)
(* A JavaScript string is a sequence of one-character strings.  An absent  *)
(* optional number is the value undefined.  A nullable object is a         *)
(* sequence of length at most one (None / Some).  A ratio is an exact      *)
(* fraction [num, den]; for strings this short a quotient of two small     *)
(* integers and a decimal literal compare in floating point as they do     *)
(* exactly.                                                                *)
(***************************************************************************)
EXTENDS Integers, Sequences, FiniteSets, TLC

\* ------------------------------------------------------------------ bounds
\* Longest string given to the scorer and to the aligner.
MaxLen == 3
\* Longest hunk list given to insertSkipBlocks.
MaxHunks == 3
\* Largest oldStart of a hunk given to insertSkipBlocks.
MaxStart == 4
\* Largest oldLines of a hunk given to insertSkipBlocks.
MaxOldLines == 2
\* Longest input (in lines) given to parseUnifiedDiff.
MaxInputLines == 6
\* Number of paths the two trees given to compareFileTrees are made of.
MaxPaths == 3
\* The cap on the changes compareFileTrees reports.  The source sets it to
\* 1000 and reads it only in the two >= tests against the running count of
\* changes; it is scaled to the size of the trees compared here.
MAX_FILES_COMPARE == 2
\* Most dependencies (section and name) the two manifests given to
\* compareDependencies declare together.
MaxDeps == 3

VARIABLES
    \* --- scorer and aligner: arguments and results
    a, b, maxChangeRatio, changeRatio, similar,
    oldContent, newContent, segments, textPc,
    \* --- insertSkipBlocks: the hunks iterated so far, result, lastHunkLine
    hunks, result, lastHunkLine,
    \* --- parseUnifiedDiff: its locals, the loop position and the options
    files, currentFile, currentHunk, oldLine, newLine, opts, nLines, parsePc,
    \* the hunk header lines read so far, one list per '+++' line read
    headerLog,
    \* --- the file diff handler: the hunks and the stats of its response
    hunksWithSkips, stats, handlerPc,
    \* --- compareFileTrees: its arguments and the object it returns
    fromTree, toTree, added, removed, modified, truncated, treePc,
    \* --- buildCompareResponse: the object it returns
    response,
    \* --- compareDependencies: its arguments and the list it returns
    fromPkg, toPkg, depChanges, depsPc

textVars == <<a, b, maxChangeRatio, changeRatio, similar,
              oldContent, newContent, segments, textPc>>
skipVars == <<hunks, result, lastHunkLine>>
parseVars == <<files, currentFile, currentHunk, oldLine, newLine, opts,
               nLines, parsePc, headerLog>>
handlerVars == <<hunksWithSkips, stats, handlerPc>>
treeVars ==
    <<fromTree, toTree, added, removed, modified, truncated, treePc, response>>
depsVars == <<fromPkg, toPkg, depChanges, depsPc>>
vars == <<textVars, skipVars, parseVars, handlerVars, treeVars, depsVars>>

\* ----------------------------------------------------------------- values
undefined == -1
None == <<>>
Some(x) == <<x>>
IsSome(o) == Len(o) = 1

Max(x, y) == IF x >= y THEN x ELSE y
Abs(x) == IF x >= 0 THEN x ELSE -x

\* Fractions with positive denominators.
Ratio(n, d) == [num |-> n, den |-> d]
RatioLe(r, q) == r.num * q.den <= q.num * r.den
RatioZero == Ratio(0, 1)
RatioOne == Ratio(1, 1)

\* ---------------------------------------------------------------- strings
Chars == {"a", "b", " "}
StringsUpTo(n) == UNION {[1..k -> Chars] : k \in 0..n}

IsSpace(c) == c \in {" ", "\t"}

RECURSIVE Concat(_)
\* Array.prototype.join('') of a list of strings.
Concat(ss) == IF ss = <<>> THEN <<>> ELSE Head(ss) \o Concat(Tail(ss))

\* Array.prototype.slice(from, to) with 0-based bounds, to exclusive.
Slice(ss, from, to) == SubSeq(ss, from + 1, IF to > Len(ss) THEN Len(ss) ELSE to)

StartsWith(s, p) == Len(s) >= Len(p) /\ SubSeq(s, 1, Len(p)) = p

\* ------------------------------------------------------ similarity scorer
\* s[i] for a 0-based i, undefined past the end.
CharAt(s, i) == IF i + 1 <= Len(s) THEN s[i + 1] ELSE "undefined"

calculateChangeRatio(s, t) ==
    LET totalChars == Len(s) + Len(t)
        maxLen == Max(Len(s), Len(t))
        mismatches == Cardinality({i \in 0..(maxLen - 1) : CharAt(s, i) # CharAt(t, i)})
        changedChars == mismatches + Abs(Len(s) - Len(t))
    IN  IF totalChars = 0 THEN RatioOne ELSE Ratio(changedChars, totalChars)

\* The scorer is asked even when the threshold is 1 or more.
isSimilarEnoughNoShortcut(s, t, maxRatio) ==
    IF RatioLe(maxRatio, RatioZero) THEN s = t
    ELSE RatioLe(calculateChangeRatio(s, t), maxRatio)

isSimilarEnough(s, t, maxRatio) ==
    IF RatioLe(maxRatio, RatioZero) THEN s = t
    ELSE IF RatioLe(RatioOne, maxRatio) THEN TRUE
    ELSE RatioLe(calculateChangeRatio(s, t), maxRatio)

\* ---------------------------------------------------- inline word aligner
Segment(v, ty) == [value |-> v, type |-> ty]

RECURSIVE SplitFrom(_, _, _, _)
\* String.prototype.split(/(\s+)/) from position i on: cur is the token being
\* read, inSpace tells whether it is a whitespace run.  Words and whitespace
\* runs alternate; the list starts and ends with a (possibly empty) word.
SplitFrom(s, i, cur, inSpace) ==
    IF i > Len(s)
    THEN IF inSpace THEN <<cur, <<>>>> ELSE <<cur>>
    ELSE IF IsSpace(s[i]) = inSpace
         THEN SplitFrom(s, i + 1, Append(cur, s[i]), inSpace)
         ELSE <<cur>> \o SplitFrom(s, i + 1, <<s[i]>>, ~inSpace)

SplitWhitespace(s) == SplitFrom(s, 1, <<>>, FALSE)

\* The lookahead loops: the least look in 1..3 with ahead[k + look] = target
\* (0-based k), or 0 when there is none.
Lookahead(ahead, k, target) ==
    LET hits == {look \in 1..3 : k + look < Len(ahead) /\ ahead[k + look + 1] = target}
    IN  IF hits = {} THEN 0 ELSE CHOOSE look \in hits : \A other \in hits : look <= other

\* A token that matches on both sides extends a trailing normal segment.
PushNormal(segs, w) ==
    IF segs # <<>> /\ segs[Len(segs)].type = "normal"
    THEN [segs EXCEPT ![Len(segs)].value = @ \o w]
    ELSE Append(segs, Segment(w, "normal"))

RECURSIVE AlignWords(_, _, _, _, _)
\* The while loop of buildInlineDiffSegments; oi and ni are 0-based.
AlignWords(oldWords, newWords, oi, ni, segs) ==
    IF ~(oi < Len(oldWords) \/ ni < Len(newWords)) THEN segs
    ELSE IF oi >= Len(oldWords)
    THEN Append(segs, Segment(Concat(Slice(newWords, ni, Len(newWords))), "insert"))
    ELSE IF ni >= Len(newWords)
    THEN Append(segs, Segment(Concat(Slice(oldWords, oi, Len(oldWords))), "delete"))
    ELSE IF oldWords[oi + 1] = newWords[ni + 1]
    THEN AlignWords(oldWords, newWords, oi + 1, ni + 1, PushNormal(segs, oldWords[oi + 1]))
    ELSE LET lookNew == Lookahead(newWords, ni, oldWords[oi + 1])
             lookOld == Lookahead(oldWords, oi, newWords[ni + 1])
         IN  IF lookNew > 0
             THEN AlignWords(oldWords, newWords, oi, ni + lookNew,
                      Append(segs, Segment(Concat(Slice(newWords, ni, ni + lookNew)), "insert")))
             ELSE IF lookOld > 0
             THEN AlignWords(oldWords, newWords, oi + lookOld, ni,
                      Append(segs, Segment(Concat(Slice(oldWords, oi, oi + lookOld)), "delete")))
             ELSE AlignWords(oldWords, newWords, oi + 1, ni + 1,
                      segs \o <<Segment(oldWords[oi + 1], "delete"),
                                Segment(newWords[ni + 1], "insert")>>)

RECURSIVE CoalesceSegments(_, _)
\* The final pass: adjacent segments of one type become one segment.
CoalesceSegments(segs, merged) ==
    IF segs = <<>> THEN merged
    ELSE LET seg == Head(segs)
         IN  IF merged # <<>> /\ merged[Len(merged)].type = seg.type
             THEN CoalesceSegments(Tail(segs),
                      [merged EXCEPT ![Len(merged)].value = @ \o seg.value])
             ELSE CoalesceSegments(Tail(segs), Append(merged, seg))

\* A split that loses the whitespace runs: split(/\s+/), no capture group.
RECURSIVE DropSpaceTokens(_)
DropSpaceTokens(ws) ==
    IF Len(ws) <= 1 THEN ws ELSE <<ws[1]>> \o DropSpaceTokens(Tail(Tail(ws)))

buildInlineDiffSegmentsNoCapture(oldText, newText) ==
    CoalesceSegments(
        AlignWords(DropSpaceTokens(SplitWhitespace(oldText)),
                   DropSpaceTokens(SplitWhitespace(newText)), 0, 0, <<>>),
        <<>>)

buildInlineDiffSegments(oldText, newText) ==
    CoalesceSegments(
        AlignWords(SplitWhitespace(oldText), SplitWhitespace(newText), 0, 0, <<>>),
        <<>>)

\* ---------------------------------------------------------- hunk processor
\* The options of the parser (ParseOptions).
Options(merge, ratio) ==
    [maxDiffDistance |-> 30, maxChangeRatio |-> ratio,
     mergeModifiedLines |-> merge, inlineMaxCharEdits |-> 2]

defaultOptions == Options(TRUE, Ratio(45, 100))

\* A RawChange; the fields the parser leaves out are undefined.
RawChange(ty, text, lineNo, oldNo, newNo, normal) ==
    [type |-> ty, content |-> text, lineNumber |-> lineNo,
     oldLineNumber |-> oldNo, newLineNumber |-> newNo, isNormal |-> normal]

DiffLine(ty, oldNo, newNo, lineNo, segs) ==
    [type |-> ty, oldLineNumber |-> oldNo, newLineNumber |-> newNo,
     lineNumber |-> lineNo, content |-> segs]

changeToLine(change) ==
    DiffLine(change.type, change.oldLineNumber, change.newLineNumber,
             change.lineNumber, <<Segment(change.content, "normal")>>)

\* The merged line takes its numbers from the fields a delete and an insert
\* do not carry.
MergedLineSwapped(current, next) ==
    DiffLine("normal", current.newLineNumber, next.oldLineNumber, undefined,
             buildInlineDiffSegments(current.content, next.content))

\* The line pushed for a delete merged with the insert after it.
MergedLine(current, next) ==
    DiffLine("normal", current.lineNumber, next.lineNumber, undefined,
             buildInlineDiffSegments(current.content, next.content))

\* The condition under which changes[i] and changes[i + 1] merge (1-based i).
Mergeable(changes, i, options) ==
    /\ i + 1 <= Len(changes)
    /\ changes[i].type = "delete"
    /\ changes[i + 1].type = "insert"
    /\ isSimilarEnough(changes[i].content, changes[i + 1].content,
                       options.maxChangeRatio)

RECURSIVE MergeFrom(_, _, _, _)
\* The loop of mergeAdjacentLines from the 1-based index i on; skip is how far
\* a merge moves i beyond the loop's own increment.
MergeFrom(changes, i, options, skip) ==
    IF i > Len(changes) THEN <<>>
    ELSE IF Mergeable(changes, i, options)
         THEN <<MergedLine(changes[i], changes[i + 1])>>
                  \o MergeFrom(changes, i + 1 + skip, options, skip)
         ELSE <<changeToLine(changes[i])>> \o MergeFrom(changes, i + 1, options, skip)

\* The merge forgets to step over the insert it has consumed.
mergeAdjacentLinesNoSkip(changes, options) == MergeFrom(changes, 1, options, 0)

mergeAdjacentLines(changes, options) == MergeFrom(changes, 1, options, 1)

processHunk(raw, options) ==
    [type |-> "hunk", content |-> raw.content,
     oldStart |-> raw.oldStart, oldLines |-> raw.oldLines,
     newStart |-> raw.newStart, newLines |-> raw.newLines,
     lines |-> IF options.mergeModifiedLines
               THEN mergeAdjacentLines(raw.changes, options)
               ELSE [i \in 1..Len(raw.changes) |-> changeToLine(raw.changes[i])]]

\* ----------------------------------------------------- unified diff parser
Digits == {"0", "1", "2", "3", "4", "5", "6", "7", "8", "9"}

DigitValue(c) ==
    CASE c = "0" -> 0 [] c = "1" -> 1 [] c = "2" -> 2 [] c = "3" -> 3
      [] c = "4" -> 4 [] c = "5" -> 5 [] c = "6" -> 6 [] c = "7" -> 7
      [] c = "8" -> 8 [] c = "9" -> 9

RECURSIVE ParseInt(_)
\* parseInt(ds, 10) of a run of digits.
ParseInt(ds) ==
    IF ds = <<>> THEN 0
    ELSE ParseInt(SubSeq(ds, 1, Len(ds) - 1)) * 10 + DigitValue(ds[Len(ds)])

\* The character at the 1-based i, or a value no character equals.
At(s, i) == IF i >= 1 /\ i <= Len(s) THEN s[i] ELSE ""

RECURSIVE DigitsEnd(_, _)
\* The index after the run of digits (\d+, greedy) that starts at i.
DigitsEnd(s, i) == IF At(s, i) \in Digits THEN DigitsEnd(s, i + 1) ELSE i

\* (?:,(\d+))? at i: the index after it and the group, None when it is absent.
OptionalLength(s, i) ==
    IF At(s, i) = "," /\ DigitsEnd(s, i + 1) > i + 1
    THEN [end |-> DigitsEnd(s, i + 1), group |-> Some(SubSeq(s, i + 1, DigitsEnd(s, i + 1) - 1))]
    ELSE [end |-> i, group |-> None]

\* line.match(/^@@ -(\d+)(?:,(\d+))? \+(\d+)(?:,(\d+))? @@(.*)/): None, or the
\* groups 1 to 4.
HunkMatch(line) ==
    LET e1 == DigitsEnd(line, 5)
        l1 == OptionalLength(line, e1)
        s3 == l1.end + 2
        e3 == DigitsEnd(line, s3)
        l3 == OptionalLength(line, e3)
    IN  IF /\ StartsWith(line, <<"@", "@", " ", "-">>)
           /\ e1 > 5
           /\ At(line, l1.end) = " " /\ At(line, l1.end + 1) = "+"
           /\ e3 > s3
           /\ At(line, l3.end) = " " /\ At(line, l3.end + 1) = "@"
           /\ At(line, l3.end + 2) = "@"
        THEN Some([g1 |-> SubSeq(line, 5, e1 - 1), g2 |-> l1.group,
                   g3 |-> SubSeq(line, s3, e3 - 1), g4 |-> l3.group])
        ELSE None

\* A header without a length counts no line.
LengthOrZero(group) == IF IsSome(group) THEN ParseInt(group[1]) ELSE 0

\* parseInt(group ?? '1', 10)
LengthOrOne(group) == IF IsSome(group) THEN ParseInt(group[1]) ELSE 1

\* No prefix is removed.
NewFilePathWhole(line) ==
    IF StartsWith(line, <<"+", "+", "+", " ">>) THEN SubSeq(line, 5, Len(line)) ELSE <<>>

\* line.match(/^\+\+\+ (?:b\/)?(.*)/)?.[1] ?? ''
NewFilePath(line) ==
    IF StartsWith(line, <<"+", "+", "+", " ">>)
    THEN LET rest == SubSeq(line, 5, Len(line))
         IN  IF StartsWith(rest, <<"b", "/">>) THEN SubSeq(rest, 3, Len(rest)) ELSE rest
    ELSE <<>>

IsOldFileMarker(line) == StartsWith(line, <<"-", "-", "-">>)
IsNewFileMarker(line) == StartsWith(line, <<"+", "+", "+">>)
IsIgnoredLine(line) ==
    \/ StartsWith(line, <<"d", "i", "f", "f", " ">>)
    \/ StartsWith(line, <<"i", "n", "d", "e", "x", " ">>)
    \/ StartsWith(line, <<"\\">>)

\* The hunk list grows at the front.
PushHunkFront(file, hunk) == [file EXCEPT !.hunks = <<hunk>> \o @]

\* currentFile.hunks.push(hunk)
PushHunk(file, hunk) == [file EXCEPT !.hunks = Append(@, hunk)]

\* if (currentHunk && currentFile) currentFile.hunks.push(processHunk(...)):
\* the current file afterwards.
WithOpenHunk(file, hunk, options) ==
    IF IsSome(hunk) /\ IsSome(file)
    THEN Some(PushHunk(file[1], processHunk(hunk[1], options)))
    ELSE file

NewFileDiff(path) ==
    [oldPath |-> path, newPath |-> path, type |-> "modify", hunks |-> <<>>]

ParserState(fs, file, hunk, oldNo, newNo) ==
    [files |-> fs, currentFile |-> file, currentHunk |-> hunk,
     oldLine |-> oldNo, newLine |-> newNo]

\* Every line that fits none of the marker forms counts as context.
ChangeLineCatchAll(st, line) ==
    LET hunk == st.currentHunk[1]
        push(change) == Some([hunk EXCEPT !.changes = Append(@, change)])
        rest == SubSeq(line, 2, Len(line))
    IN  IF StartsWith(line, <<"+">>)
        THEN [st EXCEPT !.currentHunk =
                            push(RawChange("insert", rest, st.newLine, undefined, st.newLine, FALSE)),
                        !.newLine = @ + 1]
        ELSE IF StartsWith(line, <<"-">>)
        THEN [st EXCEPT !.currentHunk =
                            push(RawChange("delete", rest, st.oldLine, st.oldLine, undefined, FALSE)),
                        !.oldLine = @ + 1]
        ELSE [st EXCEPT !.currentHunk =
                            push(RawChange("normal", rest, undefined, st.oldLine, st.newLine, TRUE)),
                        !.oldLine = @ + 1, !.newLine = @ + 1]

\* The body of `if (currentHunk)`: a line read while a hunk is open.
ChangeLine(st, line) ==
    LET hunk == st.currentHunk[1]
        push(change) == Some([hunk EXCEPT !.changes = Append(@, change)])
        rest == SubSeq(line, 2, Len(line))
    IN  IF StartsWith(line, <<"+">>)
        THEN [st EXCEPT !.currentHunk =
                            push(RawChange("insert", rest, st.newLine, undefined, st.newLine, FALSE)),
                        !.newLine = @ + 1]
        ELSE IF StartsWith(line, <<"-">>)
        THEN [st EXCEPT !.currentHunk =
                            push(RawChange("delete", rest, st.oldLine, st.oldLine, undefined, FALSE)),
                        !.oldLine = @ + 1]
        ELSE IF StartsWith(line, <<" ">>) \/ line = <<>>
        THEN [st EXCEPT !.currentHunk =
                            push(RawChange("normal", rest, undefined, st.oldLine, st.newLine, TRUE)),
                        !.oldLine = @ + 1, !.newLine = @ + 1]
        ELSE st

\* One iteration of `for (const line of lines)`.
ParseLine(st, line, options) ==
    IF IsOldFileMarker(line)
    THEN [st EXCEPT !.currentFile = WithOpenHunk(st.currentFile, st.currentHunk, options),
                    !.currentHunk = None]
    ELSE IF IsNewFileMarker(line)
    THEN [st EXCEPT !.files = IF IsSome(st.currentFile)
                              THEN Append(@, WithOpenHunk(st.currentFile, st.currentHunk,
                                                          options)[1])
                              ELSE @,
                    !.currentFile = Some(NewFileDiff(NewFilePath(line))),
                    !.currentHunk = None]
    ELSE IF IsSome(HunkMatch(line))
    THEN LET m == HunkMatch(line)[1]
         IN  [st EXCEPT !.currentFile = WithOpenHunk(st.currentFile, st.currentHunk, options),
                        !.oldLine = ParseInt(m.g1),
                        !.newLine = ParseInt(m.g3),
                        !.currentHunk =
                            Some([changes |-> <<>>,
                                  oldStart |-> ParseInt(m.g1), oldLines |-> LengthOrOne(m.g2),
                                  newStart |-> ParseInt(m.g3), newLines |-> LengthOrOne(m.g4),
                                  content |-> line])]
    ELSE IF IsIgnoredLine(line) THEN st
    ELSE IF IsSome(st.currentHunk) THEN ChangeLine(st, line)
    ELSE st

HasLineOfType(file, ty) ==
    \E i \in 1..Len(file.hunks) :
        /\ file.hunks[i].type = "hunk"
        /\ \E j \in 1..Len(file.hunks[i].lines) : file.hunks[i].lines[j].type = ty

\* An insert decides alone.
DerivedTypeInsertFirst(file) ==
    IF HasLineOfType(file, "insert") THEN "add"
    ELSE IF HasLineOfType(file, "delete") THEN "delete"
    ELSE "modify"

\* The type given to a file after the loop.
DerivedType(file) ==
    LET hasAdds == HasLineOfType(file, "insert")
        hasDels == HasLineOfType(file, "delete")
    IN  IF hasAdds /\ ~hasDels THEN "add"
        ELSE IF hasDels /\ ~hasAdds THEN "delete"
        ELSE "modify"

\* The open file is left out of the list returned.
FinishParseClosedOnly(st, options) ==
    [i \in 1..Len(st.files) |-> [st.files[i] EXCEPT !.type = DerivedType(st.files[i])]]

\* What follows the loop: the open hunk and file are pushed and every file
\* gets its type.  The value is the list returned.
FinishParse(st, options) ==
    LET last == WithOpenHunk(st.currentFile, st.currentHunk, options)
        all == IF IsSome(last) THEN Append(st.files, last[1]) ELSE st.files
    IN  [i \in 1..Len(all) |-> [all[i] EXCEPT !.type = DerivedType(all[i])]]

\* ----------------------------------------------------- skip block inserter
IsHunk(item) == item.type = "hunk"
IsSkip(item) == item.type = "skip"

\* A hunk as insertSkipBlocks reads it.
HunkOf(start, len) == [type |-> "hunk", oldStart |-> start, oldLines |-> len]

SkipBlock(count) ==
    [type |-> "skip", count |-> count, content |-> <<count, " lines hidden">>]

\* The gap counts the first line of the hunk.
distanceToLastHunkInclusive(hunk, last) == hunk.oldStart - last + 1

distanceToLastHunk(hunk, last) == hunk.oldStart - last

\* The cursor moves to the end of the hunk, not to the furthest end seen.
NextLastHunkLineNoMax(hunk, last) == hunk.oldStart + hunk.oldLines

NextLastHunkLine(hunk, last) == Max(hunk.oldStart + hunk.oldLines, last)

\* A block is pushed for an empty gap too.
PushWithSkipNonNegative(res, hunk, last) ==
    IF distanceToLastHunk(hunk, last) >= 0
    THEN res \o <<SkipBlock(distanceToLastHunk(hunk, last)), hunk>>
    ELSE Append(res, hunk)

\* One iteration's pushes on result.
PushWithSkip(res, hunk, last) ==
    IF distanceToLastHunk(hunk, last) > 0
    THEN res \o <<SkipBlock(distanceToLastHunk(hunk, last)), hunk>>
    ELSE Append(res, hunk)

RECURSIVE InsertSkipBlocksFrom(_, _, _)
\* The loop of insertSkipBlocks on the hunks left, from result res and
\* cursor last.
InsertSkipBlocksFrom(hs, res, last) ==
    IF hs = <<>> THEN res
    ELSE InsertSkipBlocksFrom(Tail(hs), PushWithSkip(res, Head(hs), last),
                              NextLastHunkLine(Head(hs), last))

insertSkipBlocks(hs) == InsertSkipBlocksFrom(hs, <<>>, 1)

\* ------------------------------------------------------------ line counter
Stats(adds, dels) == [additions |-> adds, deletions |-> dels]

\* Every line that is not an insert counts as a deletion.
CountLineElse(acc, line) ==
    IF line.type = "insert" THEN Stats(acc.additions + 1, acc.deletions)
    ELSE Stats(acc.additions, acc.deletions + 1)

\* The counters after one line of a hunk.
CountLine(acc, line) ==
    IF line.type = "insert" THEN Stats(acc.additions + 1, acc.deletions)
    ELSE IF line.type = "delete" THEN Stats(acc.additions, acc.deletions + 1)
    ELSE acc

RECURSIVE CountLines(_, _)
CountLines(acc, lines) ==
    IF lines = <<>> THEN acc
    ELSE CountLines(CountLine(acc, Head(lines)), Tail(lines))

RECURSIVE CountItems(_, _)
\* The outer loop: only the items of type hunk are read.
CountItems(acc, items) ==
    IF items = <<>> THEN acc
    ELSE CountItems(IF Head(items).type = "hunk"
                    THEN CountLines(acc, Head(items).lines) ELSE acc,
                    Tail(items))

countDiffStats(items) == CountItems(Stats(0, 0), items)

\* ------------------------------------------------------ file tree compare
\* A node of a file tree.  A directory has neither size nor hash; a node
\* without children has the empty list.
TreeNode(path, ty, size, hash, children) ==
    [path |-> path, type |-> ty, size |-> size, hash |-> hash,
     children |-> children]

\* Every node gets an entry of its own.
MapSetAppend(map, node) == Append(map, node)

\* Map.set: a new key goes last, a known key keeps its place.
MapSet(map, node) ==
    IF \E i \in 1..Len(map) : map[i].path = node.path
    THEN [i \in 1..Len(map) |-> IF map[i].path = node.path THEN node ELSE map[i]]
    ELSE Append(map, node)

\* Map.get, Map.has: the node of a path, if any.
MapGet(map, path) ==
    IF \E i \in 1..Len(map) : map[i].path = path
    THEN Some(map[CHOOSE i \in 1..Len(map) : map[i].path = path])
    ELSE None

RECURSIVE Traverse(_, _)
Traverse(nodes, map) ==
    IF nodes = <<>> THEN map
    ELSE Traverse(Tail(nodes),
                  Traverse(Head(nodes).children, MapSet(map, Head(nodes))))

\* The map of a tree, as the list of its nodes in iteration order.
flattenTree(tree) == Traverse(tree, <<>>)

\* A string is truthy unless absent or empty.
Truthy(str) == IsSome(str) /\ str[1] # <<>>

\* The sizes are compared before the hashes.
hasChangedSizeFirst(fromNode, toNode) ==
    IF fromNode.size # undefined /\ toNode.size # undefined
    THEN fromNode.size # toNode.size
    ELSE IF Truthy(fromNode.hash) /\ Truthy(toNode.hash)
    THEN fromNode.hash # toNode.hash
    ELSE FALSE

hasChanged(fromNode, toNode) ==
    IF Truthy(fromNode.hash) /\ Truthy(toNode.hash)
    THEN fromNode.hash # toNode.hash
    ELSE IF fromNode.size # undefined /\ toNode.size # undefined
    THEN fromNode.size # toNode.size
    ELSE FALSE

\* An entry of added, removed or modified; a size the entry does not carry,
\* or that its node lacks, is undefined.
FileChange(path, ty, oldSize, newSize) ==
    [path |-> path, type |-> ty, oldSize |-> oldSize, newSize |-> newSize]

\* The running count may pass the cap by one.
overLimitStrict(res) ==
    Len(res.added) + Len(res.removed) + Len(res.modified) > MAX_FILES_COMPARE

overLimit(res) ==
    Len(res.added) + Len(res.removed) + Len(res.modified) >= MAX_FILES_COMPARE

\* A file turned directory is not recorded.
VisitToNoTransition(res, toNode, fromFiles) ==
    LET fromNode == MapGet(fromFiles, toNode.path)
        add == [res EXCEPT !.added =
                   Append(@, FileChange(toNode.path, "added", undefined, toNode.size))]
    IN  IF toNode.type = "directory" THEN res
        ELSE IF ~IsSome(fromNode) THEN add
        ELSE IF fromNode[1].type = "directory" THEN add
        ELSE IF fromNode[1].type = "file" /\ hasChanged(fromNode[1], toNode)
        THEN [res EXCEPT !.modified =
                 Append(@, FileChange(toNode.path, "modified",
                                      fromNode[1].size, toNode.size))]
        ELSE res

\* The body of the first loop, past the cap test, on one entry of toFiles.
VisitTo(res, toNode, fromFiles) ==
    LET fromNode == MapGet(fromFiles, toNode.path)
        add == [res EXCEPT !.added =
                   Append(@, FileChange(toNode.path, "added", undefined, toNode.size))]
    IN  IF toNode.type = "directory"
        THEN IF IsSome(fromNode) /\ fromNode[1].type = "file"
             THEN [res EXCEPT !.removed =
                      Append(@, FileChange(toNode.path, "removed",
                                           fromNode[1].size, undefined))]
             ELSE res
        ELSE IF ~IsSome(fromNode) THEN add
        ELSE IF fromNode[1].type = "directory" THEN add
        ELSE IF fromNode[1].type = "file" /\ hasChanged(fromNode[1], toNode)
        THEN [res EXCEPT !.modified =
                 Append(@, FileChange(toNode.path, "modified",
                                      fromNode[1].size, toNode.size))]
        ELSE res

RECURSIVE ScanTo(_, _, _)
\* The first loop, on the entries of toFiles left.
ScanTo(res, entries, fromFiles) ==
    IF entries = <<>> THEN res
    ELSE IF overLimit(res) THEN [res EXCEPT !.truncated = TRUE]
    ELSE ScanTo(VisitTo(res, Head(entries), fromFiles), Tail(entries), fromFiles)

\* Every file of fromFiles is recorded as removed.
VisitFromAlways(res, fromNode, toFiles) ==
    [res EXCEPT !.removed =
        Append(@, FileChange(fromNode.path, "removed", fromNode.size, undefined))]

\* The body of the second loop, past the cap test, on one file of fromFiles.
VisitFrom(res, fromNode, toFiles) ==
    IF ~IsSome(MapGet(toFiles, fromNode.path))
    THEN [res EXCEPT !.removed =
             Append(@, FileChange(fromNode.path, "removed", fromNode.size, undefined))]
    ELSE res

RECURSIVE ScanFrom(_, _, _)
\* The second loop, on the entries of fromFiles left.
ScanFrom(res, entries, toFiles) ==
    IF entries = <<>> THEN res
    ELSE IF Head(entries).type = "directory" THEN ScanFrom(res, Tail(entries), toFiles)
    ELSE IF overLimit(res) THEN [res EXCEPT !.truncated = TRUE]
    ELSE ScanFrom(VisitFrom(res, Head(entries), toFiles), Tail(entries), toFiles)

\* The key of a character at a level of comparison: its UTF-16 code unit
\* (level 0), its primary collation weight (level 1: punctuation before
\* letters, letters in alphabet order whatever their case), its case (level
\* 3: lower case first).
CharKey(c, level) ==
    IF level = 0
    THEN CASE c = "/" -> 47 [] c = "B" -> 66 [] c = "a" -> 97
           [] c = "b" -> 98 [] c = "c" -> 99
    ELSE IF level = 1
    THEN CASE c = "/" -> 0 [] c = "a" -> 1 [] c \in {"b", "B"} -> 2 [] c = "c" -> 3
    ELSE IF c = "B" THEN 1 ELSE 0

RECURSIVE CompareKeys(_, _, _)
\* The sign of the first difference of the keys of two strings.
CompareKeys(p, q, level) ==
    IF p = <<>> /\ q = <<>> THEN 0
    ELSE IF p = <<>> THEN 0 - 1
    ELSE IF q = <<>> THEN 1
    ELSE IF CharKey(Head(p), level) < CharKey(Head(q), level) THEN 0 - 1
    ELSE IF CharKey(Head(p), level) > CharKey(Head(q), level) THEN 1
    ELSE CompareKeys(Tail(p), Tail(q), level)

\* String.prototype.localeCompare: the strings are compared by primary
\* weights, then by case.
localeCompare(p, q) ==
    IF CompareKeys(p, q, 1) # 0 THEN CompareKeys(p, q, 1) ELSE CompareKeys(p, q, 3)

\* The list is left as it is.
SortByPathNone(list) == list

\* Array.prototype.sort with the comparator of lines 116-118: a stable sort.
SortByPath(list) ==
    LET before(i, j) ==
            \/ localeCompare(list[i].path, list[j].path) < 0
            \/ localeCompare(list[i].path, list[j].path) = 0 /\ i < j
        rank(j) == Cardinality({i \in 1..Len(list) : before(i, j)})
    IN  [k \in 1..Len(list) |-> list[CHOOSE j \in 1..Len(list) : rank(j) = k - 1]]

compareFileTrees(from, to) ==
    LET fromFiles == flattenTree(from)
        toFiles == flattenTree(to)
        start == [added |-> <<>>, removed |-> <<>>, modified |-> <<>>,
                  truncated |-> FALSE]
        res == ScanFrom(ScanTo(start, toFiles, fromFiles), fromFiles, toFiles)
    IN  [added |-> SortByPath(res.added), removed |-> SortByPath(res.removed),
         modified |-> SortByPath(res.modified), truncated |-> res.truncated]

\* --------------------------------------------------- dependency compare
sections ==
    <<"dependencies", "devDependencies", "peerDependencies", "optionalDependencies">>

\* sections.indexOf
SectionIndex(section) == CHOOSE i \in 1..Len(sections) : sections[i] = section

\* pkg?.[section] ?? {}: the entries [name, version] of a section, in the
\* order of Object.keys; none for a null manifest or a missing section.
DepsOf(pkg, section) ==
    IF IsSome(pkg) /\ IsSome(pkg[1][section]) THEN pkg[1][section][1] ELSE <<>>

\* deps[name] ?? null
VersionOf(deps, name) ==
    IF \E i \in 1..Len(deps) : deps[i].name = name
    THEN Some(deps[CHOOSE i \in 1..Len(deps) : deps[i].name = name].version)
    ELSE None

\* The names of the two sections as the Set iterates them.
AllNames(fromDeps, toDeps) ==
    LET known(e) == ~IsSome(VersionOf(fromDeps, e.name))
        rest == SelectSeq(toDeps, known)
    IN  [i \in 1..Len(fromDeps) |-> fromDeps[i].name]
            \o [i \in 1..Len(rest) |-> rest[i].name]

\* version.replace(/^[\^~>=<]+/, '')
StripRange(version) ==
    LET run == {i \in 1..Len(version) :
                   \A j \in 1..i : version[j] \in {"^", "~", ">", "=", "<"}}
    IN  SubSeq(version, Cardinality(run) + 1, Len(version))

\* The parse of the semver library on versions of one-digit numbers:
\* major.minor.patch, then '-' and a prerelease tag of letters if any; None
\* for any other string, on which the library throws.
SemVerParse(version) ==
    IF /\ Len(version) >= 5
       /\ version[1] \in Digits /\ version[2] = "."
       /\ version[3] \in Digits /\ version[4] = "."
       /\ version[5] \in Digits
       /\ \/ Len(version) = 5
          \/ /\ Len(version) >= 7
             /\ version[6] = "-"
             /\ \A i \in 7..Len(version) : version[i] \in {"a", "b", "c"}
    THEN Some([major |-> DigitValue(version[1]), minor |-> DigitValue(version[3]),
               patch |-> DigitValue(version[5]),
               prerelease |-> SubSeq(version, 7, Len(version))])
    ELSE None

\* SemVer.compareMain
CompareMain(x, y) ==
    IF x.major # y.major THEN (IF x.major < y.major THEN 0 - 1 ELSE 1)
    ELSE IF x.minor # y.minor THEN (IF x.minor < y.minor THEN 0 - 1 ELSE 1)
    ELSE IF x.patch # y.patch THEN (IF x.patch < y.patch THEN 0 - 1 ELSE 1)
    ELSE 0

\* SemVer.compare: a prerelease comes before its release, two prerelease
\* tags compare as strings.
SemVerCompare(x, y) ==
    IF CompareMain(x, y) # 0 THEN CompareMain(x, y)
    ELSE IF x.prerelease # <<>> /\ y.prerelease = <<>> THEN 0 - 1
    ELSE IF x.prerelease = <<>> /\ y.prerelease # <<>> THEN 1
    ELSE CompareKeys(x.prerelease, y.prerelease, 0)

\* diff of the semver library on two versions that parse: null (None) for
\* equal versions, else the name of the difference.
semverDiff(version1, version2) ==
    LET v1 == SemVerParse(version1)[1]
        v2 == SemVerParse(version2)[1]
        high == IF SemVerCompare(v1, v2) > 0 THEN v1 ELSE v2
        low == IF SemVerCompare(v1, v2) > 0 THEN v2 ELSE v1
        highHasPre == high.prerelease # <<>>
        lowHasPre == low.prerelease # <<>>
        prefix == IF highHasPre THEN "pre" ELSE ""
    IN  IF SemVerCompare(v1, v2) = 0 THEN None
        ELSE IF lowHasPre /\ ~highHasPre /\ low.patch = 0 /\ low.minor = 0
        THEN Some("major")
        ELSE IF lowHasPre /\ ~highHasPre /\ CompareMain(low, high) = 0
        THEN (IF low.minor # 0 /\ low.patch = 0 THEN Some("minor") ELSE Some("patch"))
        ELSE IF v1.major # v2.major THEN Some(prefix \o "major")
        ELSE IF v1.minor # v2.minor THEN Some(prefix \o "minor")
        ELSE IF v1.patch # v2.patch THEN Some(prefix \o "patch")
        ELSE Some("prerelease")

\* The kind of a change from its two versions, absent ones being None.
ChangeType(fromVersion, toVersion) ==
    IF ~Truthy(fromVersion) THEN "added"
    ELSE IF ~Truthy(toVersion) THEN "removed"
    ELSE "updated"

\* The result of the library is kept as it is.
SemverDiffTypeUnmapped(ty, fromVersion, toVersion) ==
    IF ty = "updated" /\ Truthy(fromVersion) /\ Truthy(toVersion)
    THEN LET cleanFrom == StripRange(fromVersion[1])
             cleanTo == StripRange(toVersion[1])
         IN  IF ~IsSome(SemVerParse(cleanFrom)) \/ ~IsSome(SemVerParse(cleanTo))
             THEN None
             ELSE semverDiff(cleanFrom, cleanTo)
    ELSE None

\* semverDiffType of a change of kind ty; a throw of the library is caught
\* and leaves null.
SemverDiffType(ty, fromVersion, toVersion) ==
    IF ty = "updated" /\ Truthy(fromVersion) /\ Truthy(toVersion)
    THEN LET cleanFrom == StripRange(fromVersion[1])
             cleanTo == StripRange(toVersion[1])
             diffResult == semverDiff(cleanFrom, cleanTo)
         IN  IF ~IsSome(SemVerParse(cleanFrom)) \/ ~IsSome(SemVerParse(cleanTo))
             THEN None
             ELSE IF ~IsSome(diffResult) THEN None
             ELSE IF diffResult[1] \in {"premajor", "preminor", "prepatch"}
             THEN Some("prerelease")
             ELSE IF diffResult[1] \in {"major", "minor", "patch", "prerelease"}
             THEN diffResult
             ELSE None
    ELSE None

DependencyChange(name, section, fromVersion, toVersion) ==
    [name |-> name, section |-> section, from |-> fromVersion, to |-> toVersion,
     type |-> ChangeType(fromVersion, toVersion),
     semverDiff |-> SemverDiffType(ChangeType(fromVersion, toVersion),
                                   fromVersion, toVersion)]

\* Every name of the two sections gives a change.
SectionChangesAll(section, from, to) ==
    LET names == AllNames(DepsOf(from, section), DepsOf(to, section))
    IN  [i \in 1..Len(names) |->
            DependencyChange(names[i], section,
                             VersionOf(DepsOf(from, section), names[i]),
                             VersionOf(DepsOf(to, section), names[i]))]

\* The changes pushed for one section.
SectionChanges(section, from, to) ==
    LET fromDeps == DepsOf(from, section)
        toDeps == DepsOf(to, section)
        differs(name) == VersionOf(fromDeps, name) # VersionOf(toDeps, name)
        names == SelectSeq(AllNames(fromDeps, toDeps), differs)
    IN  [i \in 1..Len(names) |->
            DependencyChange(names[i], section, VersionOf(fromDeps, names[i]),
                             VersionOf(toDeps, names[i]))]

\* The changes are sorted by name alone.
SortChangesByName(list) ==
    LET before(i, j) ==
            \/ localeCompare(list[i].name, list[j].name) < 0
            \/ localeCompare(list[i].name, list[j].name) = 0 /\ i < j
        rank(j) == Cardinality({i \in 1..Len(list) : before(i, j)})
    IN  [k \in 1..Len(list) |-> list[CHOOSE j \in 1..Len(list) : rank(j) = k - 1]]

\* changes.sort with the comparator of lines 189-194: a stable sort.
SortChanges(list) ==
    LET compare(x, y) ==
            IF x.section # y.section
            THEN SectionIndex(x.section) - SectionIndex(y.section)
            ELSE localeCompare(x.name, y.name)
        before(i, j) ==
            \/ compare(list[i], list[j]) < 0
            \/ compare(list[i], list[j]) = 0 /\ i < j
        rank(j) == Cardinality({i \in 1..Len(list) : before(i, j)})
    IN  [k \in 1..Len(list) |-> list[CHOOSE j \in 1..Len(list) : rank(j) = k - 1]]

compareDependencies(from, to) ==
    SortChanges(SectionChanges(sections[1], from, to)
                    \o SectionChanges(sections[2], from, to)
                    \o SectionChanges(sections[3], from, to)
                    \o SectionChanges(sections[4], from, to))

\* ------------------------------------------------------- response builder
RECURSIVE countFilesAllNodes(_)
\* The directories are counted too.
countFilesAllNodes(tree) ==
    IF tree = <<>> THEN 0
    ELSE 1 + countFilesAllNodes(Head(tree).children) + countFilesAllNodes(Tail(tree))

RECURSIVE countFiles(_)
countFiles(tree) ==
    IF tree = <<>> THEN 0
    ELSE (IF Head(tree).type = "file" THEN 1 ELSE 0)
             + countFiles(Head(tree).children) + countFiles(Tail(tree))

\* ========================================================== specifications

\* ------------------------------------------------- the scorer and aligner
MaxChangeRatios ==
    {Ratio(0 - 1, 2), Ratio(0, 1), Ratio(1, 4), Ratio(45, 100), Ratio(1, 2),
     Ratio(1, 1), Ratio(3, 2)}

TextIdle ==
    /\ a = <<>> /\ b = <<>>
    /\ oldContent = <<>> /\ newContent = <<>>
    /\ maxChangeRatio = Ratio(45, 100)
    /\ changeRatio = RatioZero
    /\ similar = FALSE
    /\ segments = <<>>
    /\ textPc = "idle"

TextInit ==
    /\ a \in StringsUpTo(MaxLen)
    /\ b \in StringsUpTo(MaxLen)
    /\ oldContent = a /\ newContent = b
    /\ maxChangeRatio = Ratio(45, 100)
    /\ changeRatio = RatioZero
    /\ similar = FALSE
    /\ segments = <<>>
    /\ textPc = "called"

CalculateChangeRatio ==
    /\ textPc = "called"
    /\ changeRatio' = calculateChangeRatio(a, b)
    /\ textPc' = "scored"
    /\ UNCHANGED <<a, b, maxChangeRatio, similar, oldContent, newContent, segments>>
    /\ UNCHANGED <<skipVars, parseVars, handlerVars, treeVars, depsVars>>

IsSimilarEnough ==
    /\ textPc = "scored"
    /\ \E r \in MaxChangeRatios :
          /\ maxChangeRatio' = r
          /\ similar' = isSimilarEnough(a, b, r)
    /\ textPc' = "judged"
    /\ UNCHANGED <<a, b, changeRatio, oldContent, newContent, segments>>
    /\ UNCHANGED <<skipVars, parseVars, handlerVars, treeVars, depsVars>>

BuildInlineDiffSegments ==
    /\ textPc = "called"
    /\ segments' = buildInlineDiffSegments(oldContent, newContent)
    /\ textPc' = "aligned"
    /\ UNCHANGED <<a, b, maxChangeRatio, changeRatio, similar, oldContent, newContent>>
    /\ UNCHANGED <<skipVars, parseVars, handlerVars, treeVars, depsVars>>

NextText == CalculateChangeRatio \/ IsSimilarEnough \/ BuildInlineDiffSegments

\* ------------------------------------------------------- insertSkipBlocks
HunkInputs == {HunkOf(start, len) : start \in 0..MaxStart, len \in 0..MaxOldLines}

SkipInit ==
    /\ hunks = <<>>
    /\ result = <<>>
    /\ lastHunkLine = 1

SkipIdle == SkipInit

\* One iteration of the loop, on the next hunk of the list.  Nothing follows
\* the loop, so every state holds the value returned for the hunks read.
InsertSkipBlocksStep ==
    /\ Len(hunks) < MaxHunks
    /\ \E hunk \in HunkInputs :
          /\ hunks' = Append(hunks, hunk)
          /\ result' = PushWithSkip(result, hunk, lastHunkLine)
          /\ lastHunkLine' = NextLastHunkLine(hunk, lastHunkLine)
    /\ UNCHANGED <<textVars, parseVars, handlerVars, treeVars, depsVars>>

NextSkip == InsertSkipBlocksStep

\* ------------------------------------------------------- parseUnifiedDiff
OldMarkerLine == <<"-", "-", "-", " ", "a", "/", "x">>
NewMarkerLine == <<"+", "+", "+", " ", "b", "/", "x">>
HeaderLine == <<"@", "@", " ", "-", "1", ",", "2", " ", "+", "1", ",", "2", " ", "@", "@">>
ShortHeaderLine == <<"@", "@", " ", "-", "5", " ", "+", "7", " ", "@", "@", " ", "f">>
DiffGitLine == <<"d", "i", "f", "f", " ", "x">>
IndexLine == <<"i", "n", "d", "e", "x", " ", "1">>
NoNewlineLine == <<"\\", " ", "N", "o">>
DeleteLine == <<"-", "a", " ", "b">>
InsertLine == <<"+", "a", " ", "c">>
OtherInsertLine == <<"+", "x">>
ContextLine == <<" ", "a">>
EmptyLine == <<>>
TextLine == <<"f", "o", "o">>

\* The lines an input is made of.
InputLines ==
    {OldMarkerLine, NewMarkerLine, HeaderLine, ShortHeaderLine, DiffGitLine,
     IndexLine, NoNewlineLine, DeleteLine, InsertLine, OtherInsertLine,
     ContextLine, EmptyLine, TextLine}

\* The options a caller passes, merged over the defaults.
OptionChoices ==
    {defaultOptions, Options(FALSE, Ratio(45, 100)), Options(TRUE, Ratio(1, 1))}

ParseIdle ==
    /\ files = <<>>
    /\ currentFile = None
    /\ currentHunk = None
    /\ oldLine = 0
    /\ newLine = 0
    /\ opts = defaultOptions
    /\ nLines = 0
    /\ parsePc = "idle"
    /\ headerLog = <<>>

ParseInit ==
    /\ files = <<>>
    /\ currentFile = None
    /\ currentHunk = None
    /\ oldLine = 0
    /\ newLine = 0
    /\ opts \in OptionChoices
    /\ nLines = 0
    /\ parsePc = "loop"
    /\ headerLog = <<>>

\* The locals of parseUnifiedDiff as one value.
Locals == ParserState(files, currentFile, currentHunk, oldLine, newLine)

\* headerLog after a line: a '+++' line opens a list, a hunk header read
\* after a '+++' line joins the last list.
LogLine(log, line) ==
    IF IsOldFileMarker(line) THEN log
    ELSE IF IsNewFileMarker(line) THEN Append(log, <<>>)
    ELSE IF IsSome(HunkMatch(line)) /\ log # <<>>
    THEN [log EXCEPT ![Len(log)] = Append(@, line)]
    ELSE log

\* The loop reads the next line of the input.
ReadLine ==
    /\ parsePc = "loop"
    /\ nLines < MaxInputLines
    /\ \E line \in InputLines :
          LET next == ParseLine(Locals, line, opts)
          IN  /\ files' = next.files
              /\ currentFile' = next.currentFile
              /\ currentHunk' = next.currentHunk
              /\ oldLine' = next.oldLine
              /\ newLine' = next.newLine
              /\ headerLog' = LogLine(headerLog, line)
    /\ nLines' = nLines + 1
    /\ UNCHANGED <<opts, parsePc>>
    /\ UNCHANGED <<textVars, skipVars, handlerVars, treeVars, depsVars>>

\* The input ends: the parser returns files.
EndOfInput ==
    /\ parsePc = "loop"
    /\ files' = FinishParse(Locals, opts)
    /\ parsePc' = "done"
    /\ UNCHANGED <<currentFile, currentHunk, oldLine, newLine, opts, nLines, headerLog>>
    /\ UNCHANGED <<textVars, skipVars, handlerVars, treeVars, depsVars>>

NextParse == ReadLine \/ EndOfInput

\* ------------------------------------------------- the new-file marker lines
\* The forms of a '+++' line: the path behind b/, behind a/, bare, and not
\* set off by a space.  A hunk header lets the files differ in their hunks.
MarkerLines ==
    {NewMarkerLine,
     <<"+", "+", "+", " ", "a", "/", "x">>,
     <<"+", "+", "+", " ", "x">>,
     <<"+", "+", "+", "x">>,
     ShortHeaderLine}

\* The loop reads a marker line.
ReadMarkerLine ==
    /\ parsePc = "loop"
    /\ nLines < MaxInputLines
    /\ \E line \in MarkerLines :
          LET next == ParseLine(Locals, line, opts)
          IN  /\ files' = next.files
              /\ currentFile' = next.currentFile
              /\ currentHunk' = next.currentHunk
              /\ oldLine' = next.oldLine
              /\ newLine' = next.newLine
              /\ headerLog' = LogLine(headerLog, line)
    /\ nLines' = nLines + 1
    /\ UNCHANGED <<opts, parsePc>>
    /\ UNCHANGED <<textVars, skipVars, handlerVars, treeVars, depsVars>>

NextMarker == ReadMarkerLine \/ EndOfInput

\* -------------------------------------------------- the file diff handler
HandlerIdle ==
    /\ hunksWithSkips = <<>>
    /\ stats = Stats(0, 0)
    /\ handlerPc = "idle"

\* createDiff has returned the first file of the parse, or null: the handler
\* inserts the skip blocks, counts the lines and responds.
RespondFileDiff ==
    /\ parsePc = "done"
    /\ handlerPc = "idle"
    /\ IF files = <<>>
       THEN /\ hunksWithSkips' = <<>>
            /\ stats' = Stats(0, 0)
       ELSE LET hunkOnly == SelectSeq(files[1].hunks, IsHunk)
            IN  /\ hunksWithSkips' = insertSkipBlocks(hunkOnly)
                /\ stats' = countDiffStats(insertSkipBlocks(hunkOnly))
    /\ handlerPc' = "responded"
    /\ UNCHANGED <<textVars, skipVars, parseVars, treeVars, depsVars>>

NextDiff == ReadLine \/ EndOfInput \/ RespondFileDiff

\* ------------------------------------------------------- compareFileTrees
\* The paths of the trees compared: a, a/c, B, b, ...
PathList ==
    << <<"a">>, <<"a", "/", "c">>, <<"B">>, <<"b">>, <<"c">>, <<"B", "/", "a">> >>

\* a/c lies under a; every other path lies at the top of its tree.
ParentOf(i) == IF i = 2 THEN 1 ELSE 0

\* What a path is in a tree: nothing, a directory, or a file of some size
\* and hash.
Kind(ty, size, hash) == [type |-> ty, size |-> size, hash |-> hash]

FileKinds ==
    {Kind("file", size, hash) :
        size \in {undefined, 10, 12}, hash \in {None, Some(<<"X">>), Some(<<"Y">>)}}

\* The tree in which path i is kinds[i], its top level in the order of
\* PathList or in the reverse order.
TreeOf(kinds, reversed) ==
    LET present == {i \in DOMAIN kinds : kinds[i].type # "absent"}
        under(i) == {j \in present : ParentOf(j) = i /\ kinds[i].type = "directory"}
        top == {i \in present : \A j \in present : i \notin under(j)}
        inOrder(S) ==
            [k \in 1..Cardinality(S) |->
                CHOOSE i \in S :
                    Cardinality({j \in S : IF reversed THEN j > i ELSE j < i}) = k - 1]
        leaf(i) ==
            TreeNode(PathList[i], kinds[i].type, kinds[i].size, kinds[i].hash, <<>>)
        node(i) ==
            [leaf(i) EXCEPT !.children =
                [k \in 1..Cardinality(under(i)) |-> leaf(inOrder(under(i))[k])]]
    IN  [k \in 1..Cardinality(top) |-> node(inOrder(top)[k])]

\* The 'from' trees and the 'to' trees: every path absent, a directory or a
\* file, in both orders; and the one-file trees of every size and hash.
FromTrees ==
    {TreeOf(kinds, reversed) :
        kinds \in [1..MaxPaths -> {Kind("absent", undefined, None),
                                   Kind("directory", undefined, None),
                                   Kind("file", 10, Some(<<"X">>))}],
        reversed \in BOOLEAN}
    \cup {TreeOf(<<kind>>, FALSE) : kind \in FileKinds}

ToTrees ==
    {TreeOf(kinds, reversed) :
        kinds \in [1..MaxPaths -> {Kind("absent", undefined, None),
                                   Kind("directory", undefined, None),
                                   Kind("file", 10, Some(<<"X">>)),
                                   Kind("file", 12, Some(<<"Y">>))}],
        reversed \in BOOLEAN}
    \cup {TreeOf(<<kind>>, FALSE) : kind \in FileKinds}

TreeIdle ==
    /\ fromTree = <<>> /\ toTree = <<>>
    /\ added = <<>> /\ removed = <<>> /\ modified = <<>>
    /\ truncated = FALSE
    /\ treePc = "idle"
    /\ response = None

TreeInit ==
    /\ fromTree \in FromTrees
    /\ toTree \in ToTrees
    /\ added = <<>> /\ removed = <<>> /\ modified = <<>>
    /\ truncated = FALSE
    /\ treePc = "called"
    /\ response = None

CompareFileTrees ==
    /\ treePc = "called"
    /\ LET ret == compareFileTrees(fromTree, toTree)
       IN  /\ added' = ret.added
           /\ removed' = ret.removed
           /\ modified' = ret.modified
           /\ truncated' = ret.truncated
    /\ treePc' = "returned"
    /\ UNCHANGED <<fromTree, toTree, response>>
    /\ UNCHANGED <<textVars, skipVars, parseVars, handlerVars, depsVars>>

NextTree == CompareFileTrees

\* ---------------------------------------------------- buildCompareResponse
\* The response is built for two trees and two null manifests; the package
\* name, the versions and the compute time pass through and are left out.
\* warnings is None where the source gives undefined.
BuildCompareResponse ==
    /\ treePc = "called"
    /\ LET fileChanges == compareFileTrees(fromTree, toTree)
           warnings == IF fileChanges.truncated
                       THEN <<<<"File list truncated to ", MAX_FILES_COMPARE, " files">>>>
                       ELSE <<>>
       IN  /\ added' = fileChanges.added
           /\ removed' = fileChanges.removed
           /\ modified' = fileChanges.modified
           /\ truncated' = fileChanges.truncated
           /\ response' =
                  Some([files |-> [added |-> fileChanges.added,
                                   removed |-> fileChanges.removed,
                                   modified |-> fileChanges.modified],
                        dependencyChanges |-> compareDependencies(fromPkg, toPkg),
                        stats |-> [totalFilesFrom |-> countFiles(fromTree),
                                   totalFilesTo |-> countFiles(toTree),
                                   filesAdded |-> Len(fileChanges.added),
                                   filesRemoved |-> Len(fileChanges.removed),
                                   filesModified |-> Len(fileChanges.modified)],
                        meta |-> [truncated |-> fileChanges.truncated,
                                  warnings |-> IF Len(warnings) > 0
                                               THEN Some(warnings) ELSE None]])
    /\ treePc' = "responded"
    /\ UNCHANGED <<fromTree, toTree>>
    /\ UNCHANGED <<textVars, skipVars, parseVars, handlerVars, depsVars>>

NextResponse == BuildCompareResponse

\* ---------------------------------------------------- compareDependencies
\* The package names of the manifests compared.
NameList == << <<"a">>, <<"B">> >>

\* The version strings of a manifest: the empty string, ranges, versions
\* with a prerelease tag, a string that is no version.
VersionStrings ==
    {<<>>,
     <<"^", "4", ".", "0", ".", "0">>, <<"^", "4", ".", "1", ".", "0">>,
     <<"~", "4", ".", "0", ".", "0">>, <<">", "=", "4", ".", "0", ".", "1">>,
     <<"5", ".", "0", ".", "0", "-", "a">>, <<"5", ".", "0", ".", "0", "-", "b">>,
     <<"*">>}

\* The versions of one dependency in the two manifests, not absent from
\* both: any two version strings when it is the only dependency declared,
\* ^4.0.0 on the 'from' side and ^4.0.0 or ^4.1.0 on the 'to' side otherwise.
VersionPairs(slots) ==
    LET fromSide == IF Cardinality(slots) <= 1 THEN VersionStrings
                    ELSE {<<"^", "4", ".", "0", ".", "0">>}
        toSide == IF Cardinality(slots) <= 1 THEN VersionStrings
                  ELSE {<<"^", "4", ".", "0", ".", "0">>,
                        <<"^", "4", ".", "1", ".", "0">>}
    IN  (({None} \cup {Some(v) : v \in fromSide})
            \X ({None} \cup {Some(v) : v \in toSide})) \ {<<None, None>>}

\* The manifest of one side (1: from, 2: to) that declares the dependencies
\* of slots with the versions of pairs, the names of a section in the order
\* of NameList or in the reverse order; a section without a dependency is
\* missing, a manifest without a section is null.
PkgOf(side, slots, pairs, reversed) ==
    LET declared(k) ==
            {n \in 1..Len(NameList) :
                <<k, n>> \in slots /\ IsSome(pairs[<<k, n>>][side])}
        inOrder(S) ==
            [i \in 1..Cardinality(S) |->
                CHOOSE n \in S :
                    Cardinality({m \in S : IF reversed THEN m > n ELSE m < n}) = i - 1]
        deps(k) ==
            [i \in 1..Cardinality(declared(k)) |->
                [name |-> NameList[inOrder(declared(k))[i]],
                 version |-> pairs[<<k, inOrder(declared(k))[i]>>][side][1]]]
    IN  IF \A k \in 1..Len(sections) : declared(k) = {} THEN None
        ELSE Some([section \in {sections[k] : k \in 1..Len(sections)} |->
                      LET k == SectionIndex(section)
                      IN  IF declared(k) = {} THEN None ELSE Some(deps(k))])

DepsIdle ==
    /\ fromPkg = None /\ toPkg = None
    /\ depChanges = <<>>
    /\ depsPc = "idle"

DepsInit ==
    /\ \E slots \in {S \in SUBSET ((1..Len(sections)) \X (1..Len(NameList))) :
                         Cardinality(S) <= MaxDeps} :
          \E pairs \in [slots -> VersionPairs(slots)], reversed \in BOOLEAN :
              /\ fromPkg = PkgOf(1, slots, pairs, reversed)
              /\ toPkg = PkgOf(2, slots, pairs, reversed)
    /\ depChanges = <<>>
    /\ depsPc = "called"

CompareDependencies ==
    /\ depsPc = "called"
    /\ depChanges' = compareDependencies(fromPkg, toPkg)
    /\ depsPc' = "returned"
    /\ UNCHANGED <<fromPkg, toPkg>>
    /\ UNCHANGED <<textVars, skipVars, parseVars, handlerVars, treeVars>>

NextDeps == CompareDependencies

\* --------------------------------------------------------- specifications
\* The scorer and the aligner on every pair of short strings.
InitText == TextInit /\ SkipIdle /\ ParseIdle /\ HandlerIdle /\ TreeIdle /\ DepsIdle
SpecText == InitText /\ [][NextText]_vars

\* insertSkipBlocks on every short hunk list.
InitSkip == TextIdle /\ SkipInit /\ ParseIdle /\ HandlerIdle /\ TreeIdle /\ DepsIdle
SpecSkip == InitSkip /\ [][NextSkip]_vars

\* parseUnifiedDiff on every short input made of InputLines.
InitParse == TextIdle /\ SkipIdle /\ ParseInit /\ HandlerIdle /\ TreeIdle /\ DepsIdle
SpecParse == InitParse /\ [][NextParse]_vars

\* parseUnifiedDiff on every short input of new-file marker lines.
SpecMarker == InitParse /\ [][NextMarker]_vars

\* compareFileTrees on every pair of small trees.
InitTree ==
    TextIdle /\ SkipIdle /\ ParseIdle /\ HandlerIdle /\ TreeInit /\ DepsIdle
SpecTree == InitTree /\ [][NextTree]_vars

\* compareDependencies on every pair of small manifests.
InitDeps ==
    TextIdle /\ SkipIdle /\ ParseIdle /\ HandlerIdle /\ TreeIdle /\ DepsInit
SpecDeps == InitDeps /\ [][NextDeps]_vars

\* buildCompareResponse on every pair of small trees, and on the trees in
\* which the path a occurs twice, as two files, two directories or one of
\* each, with or without a file B after them.
InitResponse ==
    LET kinds == {Kind("directory", undefined, None),
                  Kind("file", 10, Some(<<"X">>)), Kind("file", 12, Some(<<"Y">>))}
        node(i, kind) == TreeNode(PathList[i], kind.type, kind.size, kind.hash, <<>>)
        twins == {<<node(1, k1), node(1, k2)>> : k1 \in kinds, k2 \in kinds}
        twinTrees == twins \cup {t \o <<node(3, Kind("file", 10, Some(<<"X">>)))>> :
                                    t \in twins}
    IN  /\ TextIdle /\ SkipIdle /\ ParseIdle /\ HandlerIdle /\ DepsIdle
        /\ fromTree \in FromTrees \cup twinTrees
        /\ toTree \in ToTrees \cup twinTrees
        /\ added = <<>> /\ removed = <<>> /\ modified = <<>>
        /\ truncated = FALSE
        /\ treePc = "called"
        /\ response = None
SpecResponse == InitResponse /\ [][NextResponse]_vars

\* The file diff handler on every short parsed input.
InitDiff == TextIdle /\ SkipIdle /\ ParseInit /\ HandlerIdle /\ TreeIdle /\ DepsIdle
SpecDiff == InitDiff /\ [][NextDiff]_vars

\* ================================================================== claims
RECURSIVE SideText(_, _)
\* The text of one side of a segment list: the segments of that side's type
\* and the normal ones, joined in order.
SideText(segs, side) ==
    IF segs = <<>> THEN <<>>
    ELSE (IF Head(segs).type \in {side, "normal"} THEN Head(segs).value ELSE <<>>)
             \o SideText(Tail(segs), side)

SegmentTypes(segs) == {segs[i].type : i \in 1..Len(segs)}

\* C1: the delete and normal segments of the aligner's result, joined in
\* order, are oldText, and its insert and normal segments are newText.
C1_RoundTrip ==
    textPc = "aligned" =>
        /\ SideText(segments, "delete") = oldContent
        /\ SideText(segments, "insert") = newContent

\* Two texts with whitespace that align to segments of all three types.
C1_Witness ==
    /\ textPc = "aligned"
    /\ SegmentTypes(segments) = {"normal", "delete", "insert"}
    /\ \E i \in 1..Len(oldContent) : IsSpace(oldContent[i])
    /\ \E i \in 1..Len(newContent) : IsSpace(newContent[i])

\* C2: the change ratio lies in [0, 1]: the mismatches counted never exceed
\* len(a) + len(b).
C2_RatioInUnitInterval ==
    textPc = "scored" =>
        /\ 0 <= changeRatio.num
        /\ changeRatio.num <= changeRatio.den

RatioInside(r) == ~RatioLe(r, RatioZero) /\ ~RatioLe(RatioOne, r)

\* C3: similarEnough is equality for a threshold <= 0, true for a threshold
\* >= 1, and score <= threshold in between; two empty strings are similar
\* exactly when the threshold is not strictly between 0 and 1.
C3_SimilarEnough ==
    textPc = "judged" =>
        /\ RatioLe(maxChangeRatio, RatioZero) => (similar <=> a = b)
        /\ RatioLe(RatioOne, maxChangeRatio) => similar
        /\ RatioInside(maxChangeRatio) => (similar <=> RatioLe(changeRatio, maxChangeRatio))
        /\ (a = <<>> /\ b = <<>>) => (similar <=> ~RatioInside(maxChangeRatio))

\* Two different strings judged similar at a threshold of 1 or more, though
\* their score is above it.
C3_Witness ==
    /\ textPc = "judged"
    /\ RatioLe(RatioOne, maxChangeRatio)
    /\ ~RatioLe(changeRatio, maxChangeRatio)
    /\ a # b
    /\ similar

\* --- insertSkipBlocks

RECURSIVE SumSkipCounts(_)
\* The counts of the skip blocks of a result, added up.
SumSkipCounts(items) ==
    IF items = <<>> THEN 0
    ELSE (IF IsSkip(Head(items)) THEN Head(items).count ELSE 0)
             + SumSkipCounts(Tail(items))

RECURSIVE SumOldLines(_)
\* The oldLines of a hunk list, added up.
SumOldLines(hs) ==
    IF hs = <<>> THEN 0 ELSE Head(hs).oldLines + SumOldLines(Tail(hs))
HunkEnd(hunk) == hunk.oldStart + hunk.oldLines

\* The index in res of the k-th hunk of res.
HunkPosition(res, k) ==
    CHOOSE i \in 1..Len(res) :
        IsHunk(res[i]) /\ Cardinality({j \in 1..i : IsHunk(res[j])}) = k

SkipBefore(res, k) ==
    HunkPosition(res, k) > 1 /\ IsSkip(res[HunkPosition(res, k) - 1])

Ascending(hs) == \A i \in 1..(Len(hs) - 1) : hs[i].oldStart <= hs[i + 1].oldStart

\* Every hunk starts at or after the end of the one before it, the first at
\* line 1 or later.
NonOverlapping(hs) ==
    /\ hs # <<>> => hs[1].oldStart >= 1
    /\ \A i \in 1..(Len(hs) - 1) : hs[i + 1].oldStart >= HunkEnd(hs[i])

\* C8: every skip block has count > 0 and is immediately followed by a hunk,
\* and the result without its skip blocks is the input hunk list.
C8_WellFormed ==
    /\ \A i \in 1..Len(result) :
          IsSkip(result[i]) =>
              /\ result[i].count > 0
              /\ i < Len(result)
              /\ IsHunk(result[i + 1])
    /\ SelectSeq(result, IsHunk) = hunks

\* Three hunks, two of them after a gap and one without.
C8_Witness ==
    /\ Len(hunks) = 3
    /\ Cardinality({i \in 1..Len(result) : IsSkip(result[i])}) = 2

\* C9 as claimed: for a non-empty hunk list in ascending oldStart order, the
\* skip counts plus the hunks' oldLines add up to the last hunk's last line.
C9_SpanAscending ==
    (hunks # <<>> /\ Ascending(hunks)) =>
        SumSkipCounts(result) + SumOldLines(hunks)
            = HunkEnd(hunks[Len(hunks)]) - 1

\* C9 amended: the same sum, for a non-empty hunk list whose first hunk starts
\* at line 1 or later and whose every later hunk starts at or after the end
\* of the hunk before it.
C9_SpanNonOverlapping ==
    (hunks # <<>> /\ NonOverlapping(hunks)) =>
        SumSkipCounts(result) + SumOldLines(hunks)
            = HunkEnd(hunks[Len(hunks)]) - 1

\* Three hunks that do not overlap, the first after line 1, one after a gap
\* and one that touches the hunk before it.
C9_Witness ==
    /\ Len(hunks) = 3
    /\ NonOverlapping(hunks)
    /\ hunks[1].oldStart > 1
    /\ Cardinality({i \in 1..Len(result) : IsSkip(result[i])}) = 2
    /\ \E k \in 2..3 : hunks[k].oldStart = HunkEnd(hunks[k - 1])

\* The gap before the k-th hunk as the claim measures it: from line 1 for
\* the first hunk, from the end of the hunk before it for a later one.
GapFromPrevious(hs, k) ==
    IF k = 1 THEN hs[1].oldStart - 1 ELSE hs[k].oldStart - HunkEnd(hs[k - 1])

\* The gap measured from the cursor: the largest of 1 and the ends of all
\* the earlier hunks.
CursorBefore(hs, k) ==
    LET ends == {1} \cup {HunkEnd(hs[j]) : j \in 1..(k - 1)}
    IN  CHOOSE e \in ends : \A other \in ends : e >= other

GapFromCursor(hs, k) == hs[k].oldStart - CursorBefore(hs, k)

\* A skip block stands before the k-th hunk iff gap > 0, and counts gap.
SkipMatches(res, k, gap) ==
    /\ SkipBefore(res, k) <=> gap > 0
    /\ SkipBefore(res, k) => res[HunkPosition(res, k) - 1].count = gap

\* C10 as claimed: for a hunk list in ascending oldStart order a skip block
\* stands before a hunk iff the gap from the end of the hunk before it (from
\* line 1 for the first) is > 0, and its count is that gap.
C10_GapFromPreviousHunk ==
    Ascending(hunks) =>
        \A k \in 1..Len(hunks) : SkipMatches(result, k, GapFromPrevious(hunks, k))

\* C10 amended: for every hunk list a skip block stands before a hunk iff
\* the gap from the cursor is > 0, and its count is that gap; the cursor is
\* the largest of 1 and oldStart + oldLines over all the earlier hunks.
C10_GapFromCursor ==
    \A k \in 1..Len(hunks) : SkipMatches(result, k, GapFromCursor(hunks, k))

\* An ascending list where an earlier hunk ends beyond the hunk just before
\* the last one: the last hunk has a gap from its predecessor, none from the
\* cursor, and gets no skip block, while the first hunk gets one.
C10_Witness ==
    /\ Len(hunks) = 3
    /\ Ascending(hunks)
    /\ SkipBefore(result, 1)
    /\ GapFromPrevious(hunks, 3) > 0
    /\ ~SkipBefore(result, 3)

\* --- parseUnifiedDiff
RECURSIVE HunksOf(_)
\* The hunks of a file list, in order.
HunksOf(fs) == IF fs = <<>> THEN <<>> ELSE Head(fs).hunks \o HunksOf(Tail(fs))

\* The hunks finalized so far: those of the files pushed and, while the loop
\* runs, those of the current file.  After the loop, those returned.
AllHunks ==
    HunksOf(IF parsePc = "loop" /\ IsSome(currentFile) THEN Append(files, currentFile[1])
            ELSE files)

AllLines == Concat([i \in 1..Len(AllHunks) |-> AllHunks[i].lines])

\* A line of none of the recognized forms, given the hunk that is open.
MatchesNoForm(line, hunk) ==
    /\ ~StartsWith(line, <<"-", "-", "-">>)
    /\ ~StartsWith(line, <<"+", "+", "+">>)
    /\ ~IsSome(HunkMatch(line))
    /\ ~IsIgnoredLine(line)
    /\ IsSome(hunk) => (line # <<>> /\ line[1] \notin {"+", "-", " "})

\* C4: a line of no recognized form leaves the parser's state as it is, and
\* an input without a file marker (the empty input included) yields no file.
C4_Tolerant ==
    /\ parsePc = "loop" =>
          \A line \in InputLines :
              MatchesNoForm(line, currentHunk) => ParseLine(Locals, line, opts) = Locals
    /\ headerLog = <<>> => files = <<>>

\* An input with a hunk header and a change line but no file marker has been
\* read to its end and has yielded no file.
C4_Witness ==
    /\ parsePc = "done"
    /\ headerLog = <<>>
    /\ IsSome(currentHunk)
    /\ currentHunk[1].changes # <<>>
    /\ nLines > 2
    /\ files = <<>>

\* The indices of the deletes that merge with the insert after them.
MergedPairs(changes, options) ==
    IF options.mergeModifiedLines
    THEN {i \in 1..(Len(changes) - 1) :
              /\ changes[i].type = "delete"
              /\ changes[i + 1].type = "insert"
              /\ isSimilarEnough(changes[i].content, changes[i + 1].content,
                                 options.maxChangeRatio)}
    ELSE {}

\* The raw changes that open a line: all but the inserts of the merged pairs.
LineOpeners(changes, options) ==
    {i \in 1..Len(changes) : (i - 1) \notin MergedPairs(changes, options)}

\* lines is what the claim says of changes: the k-th line comes from the
\* k-th opener, merged with the insert after it or on its own.
LinesAsClaimed(changes, options, lines) ==
    LET openers == LineOpeners(changes, options)
        opener(k) == CHOOSE i \in openers : Cardinality({j \in openers : j <= i}) = k
    IN  /\ Len(lines) = Cardinality(openers)
        /\ \A k \in 1..Len(lines) :
              LET i == opener(k)
              IN  IF i \in MergedPairs(changes, options)
                  THEN /\ lines[k].type = "normal"
                       /\ lines[k].oldLineNumber = changes[i].oldLineNumber
                       /\ lines[k].newLineNumber = changes[i + 1].newLineNumber
                       /\ lines[k].content =
                              buildInlineDiffSegments(changes[i].content,
                                                      changes[i + 1].content)
                  ELSE /\ lines[k].type = changes[i].type
                       /\ lines[k].oldLineNumber = changes[i].oldLineNumber
                       /\ lines[k].newLineNumber = changes[i].newLineNumber
                       /\ lines[k].content = <<Segment(changes[i].content, "normal")>>

\* C5: whenever a hunk is finalized, its lines are the raw changes of the
\* open hunk, each consumed once and in order: a delete followed by a similar
\* enough insert as one normal line with the delete's old number, the
\* insert's new number and the aligner's segments (merging enabled), every
\* other change as its own line with one normal segment of its text.
C5_HunkProcessing ==
    [][Len(AllHunks') = Len(AllHunks) + 1 =>
           /\ IsSome(currentHunk)
           /\ LinesAsClaimed(currentHunk[1].changes, opts,
                             AllHunks'[Len(AllHunks')].lines)]_vars

\* A finalized hunk with a merged line of several segments, an insert left
\* on its own and a context line.
C5_Witness ==
    \E h \in 1..Len(AllHunks) :
        LET lines == AllHunks[h].lines
        IN  /\ \E k \in 1..Len(lines) :
                  lines[k].type = "normal" /\ Len(lines[k].content) > 1
            /\ \E k \in 1..Len(lines) : lines[k].type = "insert"
            /\ \E k \in 1..Len(lines) :
                  lines[k].type = "normal" /\ Len(lines[k].content) = 1

\* C6: in every hunk, a normal line has both line numbers, an insert only the
\* new one, a delete only the old one.
C6_LineNumbers ==
    \A k \in 1..Len(AllLines) :
        LET line == AllLines[k]
        IN  /\ line.type = "normal" =>
                  line.oldLineNumber # undefined /\ line.newLineNumber # undefined
            /\ line.type = "insert" =>
                  line.oldLineNumber = undefined /\ line.newLineNumber # undefined
            /\ line.type = "delete" =>
                  line.oldLineNumber # undefined /\ line.newLineNumber = undefined

\* The parser has returned a hunk with a context line, a delete left on its
\* own and a merged line, all with their numbers.
C6_Witness ==
    /\ parsePc = "done"
    /\ \E k \in 1..Len(AllLines) :
          /\ AllLines[k].type = "normal"
          /\ Len(AllLines[k].content) > 1
          /\ AllLines[k].oldLineNumber > 0
          /\ AllLines[k].newLineNumber > 0
    /\ \E k \in 1..Len(AllLines) :
          /\ AllLines[k].type = "normal"
          /\ AllLines[k].lineNumber = undefined
          /\ Len(AllLines[k].content) = 1
    /\ \E k \in 1..Len(AllLines) :
          AllLines[k].type = "delete" /\ AllLines[k].oldLineNumber > 0

\* The hunks of each returned file are those of the headers read after its
\* '+++' line, in the order read.
HunksInInputOrder ==
    /\ Len(files) = Len(headerLog)
    /\ \A f \in 1..Len(files) :
          /\ Len(files[f].hunks) = Len(headerLog[f])
          /\ \A i \in 1..Len(files[f].hunks) :
                /\ files[f].hunks[i].content = headerLog[f][i]
                /\ files[f].hunks[i].oldStart = ParseInt(HunkMatch(headerLog[f][i])[1].g1)

OldStartsAscending ==
    \A f \in 1..Len(files) :
        \A i \in 1..(Len(files[f].hunks) - 1) :
            files[f].hunks[i].oldStart <= files[f].hunks[i + 1].oldStart

\* C7 as claimed: the hunks of every returned file are in input order and
\* their oldStart values are non-decreasing.
C7_InputOrderAscending ==
    parsePc = "done" => (HunksInInputOrder /\ OldStartsAscending)

\* C7 amended: the hunks of every returned file are in input order, each with
\* the oldStart its header states; the parser neither sorts nor checks them.
C7_InputOrder == parsePc = "done" => HunksInInputOrder

\* A returned file with two hunks of different headers.
C7_Witness ==
    /\ parsePc = "done"
    /\ \E f \in 1..Len(files) :
          /\ Len(files[f].hunks) = 2
          /\ files[f].hunks[1].oldStart < files[f].hunks[2].oldStart

\* --- countDiffStats
\* The positions <<i, j>> of the lines of kind ty in the hunks of a list.
LinesOfKind(items, ty) ==
    {p \in UNION {{<<i, j>> : j \in 1..Len(items[i].lines)} :
                     i \in {k \in 1..Len(items) : IsHunk(items[k])}} :
        items[p[1]].lines[p[2]].type = ty}

\* The raw changes of kind ty of an open hunk.
RawOfKind(changes, ty) == {i \in 1..Len(changes) : changes[i].type = ty}

\* The stats of the hunk the open raw hunk becomes, skip blocks inserted.
StatsOfOpenHunk == countDiffStats(insertSkipBlocks(<<processHunk(currentHunk[1], opts)>>))

\* C11: the stats of a response are those of the hunk list without the skip
\* blocks: additions is the number of lines of final kind insert, deletions
\* the number of final kind delete, the skip blocks add nothing; and a hunk
\* counts its raw '+' lines less the merged pairs, its raw '-' lines less
\* the merged pairs.
C11_Stats ==
    /\ (handlerPc = "responded" /\ files # <<>>) =>
          LET H == SelectSeq(files[1].hunks, IsHunk)
          IN  /\ stats = countDiffStats(H)
              /\ stats.additions = Cardinality(LinesOfKind(H, "insert"))
              /\ stats.deletions = Cardinality(LinesOfKind(H, "delete"))
              /\ SelectSeq(hunksWithSkips, IsHunk) = H
              /\ countDiffStats(SelectSeq(hunksWithSkips, IsSkip)) = Stats(0, 0)
    /\ IsSome(currentHunk) =>
          LET changes == currentHunk[1].changes
              pairs == Cardinality(MergedPairs(changes, opts))
          IN  /\ StatsOfOpenHunk.additions =
                     Cardinality(RawOfKind(changes, "insert")) - pairs
              /\ StatsOfOpenHunk.deletions =
                     Cardinality(RawOfKind(changes, "delete")) - pairs

\* A response with a skip block, a merged line, an insert and a delete left
\* on their own.
C11_Witness ==
    /\ handlerPc = "responded"
    /\ \E k \in 1..Len(hunksWithSkips) : IsSkip(hunksWithSkips[k])
    /\ stats.additions > 0
    /\ stats.deletions > 0
    /\ \E p \in LinesOfKind(hunksWithSkips, "normal") :
          Len(hunksWithSkips[p[1]].lines[p[2]].content) > 1

\* --- compareFileTrees
\* The nodes of a tree: its top level and the children of its directories.
NodesOf(tree) ==
    {tree[i] : i \in 1..Len(tree)}
    \cup UNION {{tree[i].children[j] : j \in 1..Len(tree[i].children)} :
                  i \in 1..Len(tree)}

FilePaths(tree) == {n.path : n \in {m \in NodesOf(tree) : m.type = "file"}}
DirPaths(tree) == {n.path : n \in {m \in NodesOf(tree) : m.type = "directory"}}
NodeAt(tree, path) == CHOOSE n \in NodesOf(tree) : n.path = path

\* The rule of change detection as the claims word it.
ChangedAsClaimed(fromNode, toNode) ==
    IF fromNode.hash # None /\ toNode.hash # None
    THEN fromNode.hash # toNode.hash
    ELSE IF fromNode.size \in Nat /\ toNode.size \in Nat
    THEN fromNode.size # toNode.size
    ELSE FALSE

\* The real differences of the two trees.
RealRemoved == {p \in FilePaths(fromTree) : p \notin FilePaths(toTree)}
RealAdded == {p \in FilePaths(toTree) : p \notin FilePaths(fromTree)}
RealModified ==
    {p \in FilePaths(fromTree) \cap FilePaths(toTree) :
        ChangedAsClaimed(NodeAt(fromTree, p), NodeAt(toTree, p))}
RealDifferences ==
    Cardinality(RealRemoved) + Cardinality(RealAdded) + Cardinality(RealModified)

PathsOf(list) == {list[i].path : i \in 1..Len(list)}
EntriesAt(list, path) == {i \in 1..Len(list) : list[i].path = path}
IsExactly(list, paths) ==
    PathsOf(list) = paths /\ Len(list) = Cardinality(paths)

\* C12: with fewer real differences than the cap, truncated is false and the
\* three lists are exact: removed the files of 'from' that are absent from
\* 'to' or directories there, added the files of 'to' that are absent from
\* 'from' or directories there, modified the files of both sides that
\* changed; two identical trees give three empty lists.
C12_Exact ==
    treePc = "returned" =>
        /\ RealDifferences < MAX_FILES_COMPARE =>
              /\ ~truncated
              /\ IsExactly(removed, RealRemoved)
              /\ IsExactly(added, RealAdded)
              /\ IsExactly(modified, RealModified)
        /\ fromTree = toTree =>
              added = <<>> /\ removed = <<>> /\ modified = <<>> /\ ~truncated

\* Two trees that share an unchanged file under a directory and differ in
\* one removed file.
C12_Witness ==
    /\ treePc = "returned"
    /\ RealDifferences < MAX_FILES_COMPARE
    /\ Len(removed) = 1
    /\ \E p \in FilePaths(fromTree) \cap FilePaths(toTree) :
          Len(p) > 1 /\ p \notin PathsOf(modified)

\* C13: the three lists never hold more than the cap together; with more
\* real differences than the cap they hold exactly the cap and truncated is
\* true.
C13_Cap ==
    treePc = "returned" =>
        /\ Len(added) + Len(removed) + Len(modified) <= MAX_FILES_COMPARE
        /\ RealDifferences > MAX_FILES_COMPARE =>
              /\ Len(added) + Len(removed) + Len(modified) = MAX_FILES_COMPARE
              /\ truncated

\* One added file more than the cap.
C13_Witness ==
    /\ treePc = "returned"
    /\ Cardinality(RealAdded) = MAX_FILES_COMPARE + 1
    /\ Len(added) = MAX_FILES_COMPARE
    /\ truncated

\* C14: for a file of both trees, the hashes decide when both nodes have
\* one, else the sizes when both nodes have one, else the file is unchanged;
\* a changed file has one modified entry, with the size of the 'from' node
\* as oldSize and the size of the 'to' node as newSize.
C14_HasChanged ==
    (treePc = "returned" /\ ~truncated) =>
        \A p \in FilePaths(fromTree) \cap FilePaths(toTree) :
            LET fromNode == NodeAt(fromTree, p)
                toNode == NodeAt(toTree, p)
            IN  IF ChangedAsClaimed(fromNode, toNode)
                THEN /\ Cardinality(EntriesAt(modified, p)) = 1
                     /\ \A i \in EntriesAt(modified, p) :
                           modified[i] = FileChange(p, "modified",
                                                    fromNode.size, toNode.size)
                ELSE EntriesAt(modified, p) = {}

\* A file with the same hash and another size on the two sides is left out
\* of modified.
C14_Witness ==
    /\ treePc = "returned"
    /\ \E p \in FilePaths(fromTree) \cap FilePaths(toTree) :
          /\ NodeAt(fromTree, p).hash # None
          /\ NodeAt(fromTree, p).hash = NodeAt(toTree, p).hash
          /\ NodeAt(fromTree, p).size = 10
          /\ NodeAt(toTree, p).size = 12
    /\ modified = <<>>

\* C15: without truncation, a file turned directory has one removed entry
\* and no added entry, a directory turned file one added entry and no
\* removed entry, a path that is a directory wherever it exists no entry.
C15_Transitions ==
    (treePc = "returned" /\ ~truncated) =>
        /\ \A p \in FilePaths(fromTree) \cap DirPaths(toTree) :
              /\ Cardinality(EntriesAt(removed, p)) = 1
              /\ EntriesAt(added, p) = {}
        /\ \A p \in DirPaths(fromTree) \cap FilePaths(toTree) :
              /\ Cardinality(EntriesAt(added, p)) = 1
              /\ EntriesAt(removed, p) = {}
        /\ \A p \in (DirPaths(fromTree) \cup DirPaths(toTree))
                        \ (FilePaths(fromTree) \cup FilePaths(toTree)) :
              /\ EntriesAt(added, p) = {}
              /\ EntriesAt(removed, p) = {}
              /\ EntriesAt(modified, p) = {}

\* A file turned into a directory that holds a file.
C15_Witness ==
    /\ treePc = "returned"
    /\ ~truncated
    /\ \E p \in FilePaths(fromTree) \cap DirPaths(toTree) :
          /\ EntriesAt(removed, p) # {}
          /\ NodeAt(toTree, p).children # <<>>

\* list is in ascending order of its paths at a level of comparison.
SortedAtLevel(list, level) ==
    \A i \in 1..(Len(list) - 1) :
        CompareKeys(list[i].path, list[i + 1].path, level) <= 0

\* C16 as claimed: the three lists are in ascending byte order of their
\* paths.
C16_ByteSorted ==
    treePc = "returned" =>
        /\ SortedAtLevel(added, 0)
        /\ SortedAtLevel(removed, 0)
        /\ SortedAtLevel(modified, 0)

\* list is in ascending order of localeCompare on its paths.
LocaleSorted(list) ==
    \A i \in 1..Len(list) : \A j \in i..Len(list) :
        localeCompare(list[i].path, list[j].path) <= 0

\* C16: the three lists are in ascending order of localeCompare on their
\* paths, whatever the order of the trees and truncated or not.
C16_LocaleSorted ==
    treePc = "returned" =>
        LocaleSorted(added) /\ LocaleSorted(removed) /\ LocaleSorted(modified)

\* A truncated comparison whose added files were met in descending order.
C16_Witness ==
    /\ treePc = "returned"
    /\ truncated
    /\ Len(added) = 2
    /\ flattenTree(toTree)[1].path = added[2].path

\* --- compareDependencies
\* The version a manifest gives a name in a section, None when the manifest
\* is null, lacks the section or lacks the name.
VersionAt(pkg, section, name) ==
    IF pkg = None THEN None
    ELSE IF pkg[1][section] = None THEN None
    ELSE LET deps == pkg[1][section][1]
             at == {i \in 1..Len(deps) : deps[i].name = name}
         IN  IF at = {} THEN None ELSE Some(deps[CHOOSE i \in at : TRUE].version)

SectionNames == {sections[k] : k \in 1..Len(sections)}
PackageNames == {NameList[n] : n \in 1..Len(NameList)}

\* The changes of the returned list for a name in a section.
ChangesAt(section, name) ==
    {i \in 1..Len(depChanges) :
        depChanges[i].section = section /\ depChanges[i].name = name}

\* C17: a change is returned for a name in a section exactly when the two
\* manifests give it different versions, a missing version on both sides
\* being no difference; a change carries the two versions, which differ, and
\* a change of kind updated has both.
C17_EmittedIffDiffer ==
    depsPc = "returned" =>
        /\ \A section \in SectionNames, name \in PackageNames :
              ChangesAt(section, name) # {}
                  <=> VersionAt(fromPkg, section, name) # VersionAt(toPkg, section, name)
        /\ \A i \in 1..Len(depChanges) :
              LET c == depChanges[i]
              IN  /\ c.from = VersionAt(fromPkg, c.section, c.name)
                  /\ c.to = VersionAt(toPkg, c.section, c.name)
                  /\ c.from # c.to
                  /\ c.type = "updated" => c.from # None /\ c.to # None

\* A dependency kept at its version, another one updated and a third one
\* that only the 'to' manifest declares.
C17_Witness ==
    /\ depsPc = "returned"
    /\ \E section \in SectionNames, name \in PackageNames :
          /\ VersionAt(fromPkg, section, name) # None
          /\ ChangesAt(section, name) = {}
    /\ \E i \in 1..Len(depChanges) : depChanges[i].type = "updated"
    /\ \E i \in 1..Len(depChanges) : depChanges[i].from = None

\* C18 as claimed: a change is of kind added exactly when its from is null
\* (its to is then a version), of kind removed exactly when its to is null
\* (its from is then a version), of kind updated in every other case.
C18_Classified ==
    depsPc = "returned" =>
        \A i \in 1..Len(depChanges) :
            LET c == depChanges[i]
            IN  /\ c.type = "added" <=> c.from = None
                /\ c.type = "added" => c.to # None
                /\ c.type = "removed" <=> c.to = None
                /\ c.type = "removed" => c.from # None
                /\ c.type = "updated" <=> (c.from # None /\ c.to # None)

\* The bucket the claim gives an updated change from ver1 to ver2.
BucketAsClaimed(ver1, ver2) ==
    LET cleanFrom == StripRange(ver1)
        cleanTo == StripRange(ver2)
    IN  IF SemVerParse(cleanFrom) = None \/ SemVerParse(cleanTo) = None
        THEN None
        ELSE IF semverDiff(cleanFrom, cleanTo) \in
                    {Some("premajor"), Some("preminor"), Some("prepatch")}
        THEN Some("prerelease")
        ELSE semverDiff(cleanFrom, cleanTo)

\* C19: only a change of kind updated has a bucket; the bucket of an updated
\* change is that of its versions less their range prefix: prerelease for a
\* premajor, preminor or prepatch difference, the difference itself for
\* major, minor, patch and prerelease (minor from ^4.0.0 to ^4.1.0), null
\* when a version is no semantic version.
C19_Bucket ==
    depsPc = "returned" =>
        \A i \in 1..Len(depChanges) :
            LET c == depChanges[i]
            IN  /\ c.semverDiff # None => c.type = "updated"
                /\ c.semverDiff \in {None, Some("major"), Some("minor"),
                                     Some("patch"), Some("prerelease")}
                /\ c.type = "updated" =>
                      /\ c.semverDiff = BucketAsClaimed(c.from[1], c.to[1])
                      /\ (c.from[1] = <<"*">> \/ c.to[1] = <<"*">>) =>
                            c.semverDiff = None
                      /\ (/\ c.from[1] = <<"^", "4", ".", "0", ".", "0">>
                          /\ c.to[1] = <<"^", "4", ".", "1", ".", "0">>) =>
                            c.semverDiff = Some("minor")
                      /\ (/\ c.from[1] = <<"^", "4", ".", "0", ".", "0">>
                          /\ c.to[1] = <<"5", ".", "0", ".", "0", "-", "a">>) =>
                            c.semverDiff = Some("prerelease")

\* The one change of ^4.0.0 into ^4.1.0, of bucket minor.
C19_Witness ==
    /\ depsPc = "returned"
    /\ Len(depChanges) = 1
    /\ depChanges[1].from = Some(<<"^", "4", ".", "0", ".", "0">>)
    /\ depChanges[1].to = Some(<<"^", "4", ".", "1", ".", "0">>)
    /\ depChanges[1].type = "updated"
    /\ depChanges[1].semverDiff = Some("minor")

\* C20: the returned list goes by section in the order of sections and, in a
\* section, by name in ascending order; a name has at most one change in a
\* section, and one in every section where its versions differ.
C20_Ordered ==
    depsPc = "returned" =>
        /\ \A i \in 1..Len(depChanges) : \A j \in (i + 1)..Len(depChanges) :
              \/ SectionIndex(depChanges[i].section) < SectionIndex(depChanges[j].section)
              \/ /\ depChanges[i].section = depChanges[j].section
                 /\ localeCompare(depChanges[i].name, depChanges[j].name) < 0
        /\ \A section \in SectionNames, name \in PackageNames :
              /\ Cardinality(ChangesAt(section, name)) <= 1
              /\ VersionAt(fromPkg, section, name) # VersionAt(toPkg, section, name) =>
                    Cardinality(ChangesAt(section, name)) = 1

\* Two names changed in a section whose keys come in descending order, one
\* of them changed in a later section too.
C20_Witness ==
    /\ depsPc = "returned"
    /\ Len(depChanges) = 3
    /\ depChanges[1].section = depChanges[2].section
    /\ DepsOf(toPkg, depChanges[1].section)[1].name = depChanges[2].name
    /\ depChanges[3].name = depChanges[1].name

\* --- buildCompareResponse
\* The positions of the file nodes of a tree: <<i, 0>> at its top level,
\* <<i, j>> for the j-th child of its i-th node.
FilePositions(tree) ==
    {<<i, 0>> : i \in {k \in 1..Len(tree) : tree[k].type = "file"}}
    \cup UNION {{<<i, j>> : j \in {k \in 1..Len(tree[i].children) :
                                      tree[i].children[k].type = "file"}} :
                  i \in 1..Len(tree)}

\* C21: the response has the warning that names the cap exactly when its
\* meta.truncated is true and no warnings otherwise; its stats give the
\* lengths of its three lists, and for each tree the number of its nodes of
\* type file, at any depth, directories left out.
C21_Response ==
    treePc = "responded" =>
        LET r == response[1]
        IN  /\ r.meta.truncated = truncated
            /\ r.meta.truncated =>
                  /\ r.meta.warnings # None
                  /\ \E i \in 1..Len(r.meta.warnings[1]) :
                        r.meta.warnings[1][i][2] = MAX_FILES_COMPARE
            /\ ~r.meta.truncated => r.meta.warnings = None
            /\ r.stats.filesAdded = Len(r.files.added)
            /\ r.stats.filesRemoved = Len(r.files.removed)
            /\ r.stats.filesModified = Len(r.files.modified)
            /\ r.files = [added |-> added, removed |-> removed, modified |-> modified]
            /\ r.stats.totalFilesFrom = Cardinality(FilePositions(fromTree))
            /\ r.stats.totalFilesTo = Cardinality(FilePositions(toTree))

\* A truncated response for a 'to' tree with a file inside a directory.
C21_Witness ==
    /\ treePc = "responded"
    /\ response[1].meta.truncated
    /\ response[1].meta.warnings # None
    /\ \E i \in 1..Len(toTree) :
          /\ toTree[i].type = "directory"
          /\ \E j \in 1..Len(toTree[i].children) : toTree[i].children[j].type = "file"
    /\ response[1].stats.totalFilesTo >= 2

\* C22: the kind of every file returned is decided by the kinds of the lines
\* of its hunks alone: add exactly when some line is an insert and none a
\* delete, delete exactly when some line is a delete and none an insert,
\* modify in every other case, a file without hunks included.
C22_KindFromLines ==
    parsePc = "done" =>
        \A i \in 1..Len(files) :
            LET ins == LinesOfKind(files[i].hunks, "insert") # {}
                del == LinesOfKind(files[i].hunks, "delete") # {}
            IN  /\ files[i].type = "add" <=> (ins /\ ~del)
                /\ files[i].type = "delete" <=> (del /\ ~ins)
                /\ files[i].type = "modify" <=> ((ins /\ del) \/ (~ins /\ ~del))
                /\ files[i].type \in {"add", "delete", "modify"}

\* An added file and a deleted file are returned together.
C22_Witness ==
    /\ parsePc = "done"
    /\ \E i \in 1..Len(files) : files[i].type = "add"
    /\ \E i \in 1..Len(files) : files[i].type = "delete"

\* The step of the loop that reads the given line.
ReadOf(line) ==
    /\ parsePc = "loop"
    /\ parsePc' = "loop"
    /\ nLines' = nLines + 1
    /\ ParserState(files', currentFile', currentHunk', oldLine', newLine')
           = ParseLine(Locals, line, opts)

\* The file left open by a step is a fresh one with the given path.
OpensFile(path) == IsSome(currentFile') /\ currentFile'[1] = NewFileDiff(path)

\* C23 as stated: '+++ b/x', '+++ a/x' and '+++ x' each open a file whose
\* path is x.
C23_EitherPrefixRemoved ==
    [][/\ ReadOf(<<"+", "+", "+", " ", "b", "/", "x">>) => OpensFile(<<"x">>)
       /\ ReadOf(<<"+", "+", "+", " ", "a", "/", "x">>) => OpensFile(<<"x">>)
       /\ ReadOf(<<"+", "+", "+", " ", "x">>) => OpensFile(<<"x">>)]_vars

\* C23, amended: only a leading b/ is removed.  '+++ b/x' and '+++ x' open
\* a file whose path is x, '+++ a/x' opens a file whose path is a/x.
C23_NewPrefixRemoved ==
    [][/\ ReadOf(<<"+", "+", "+", " ", "b", "/", "x">>) => OpensFile(<<"x">>)
       /\ ReadOf(<<"+", "+", "+", " ", "a", "/", "x">>) => OpensFile(<<"a", "/", "x">>)
       /\ ReadOf(<<"+", "+", "+", " ", "x">>) => OpensFile(<<"x">>)]_vars

\* A file opened by '+++ a/x' follows a file opened with the path x.
C23_Witness ==
    /\ parsePc = "loop"
    /\ IsSome(currentFile)
    /\ currentFile[1].newPath = <<"a", "/", "x">>
    /\ \E i \in 1..Len(files) : files[i].newPath = <<"x">>

\* The step adds to the open hunk one change of the given kind whose text is
\* the line without its first character.
YieldsChange(ty, line) ==
    /\ IsSome(currentHunk')
    /\ Len(currentHunk'[1].changes) = Len(currentHunk[1].changes) + 1
    /\ LET change == currentHunk'[1].changes[Len(currentHunk'[1].changes)]
       IN  /\ change.type = ty
           /\ change.content = SubSeq(line, 2, Len(line))

\* C24: while a hunk is open, a line that begins with '+' yields an insert,
\* a line that begins with '-' a delete, a line that begins with a space or
\* is empty a context change, whatever follows the first character.
C24_EveryChangeLine ==
    [][\A line \in InputLines :
          (IsSome(currentHunk) /\ ReadOf(line)) =>
              /\ StartsWith(line, <<"+">>) => YieldsChange("insert", line)
              /\ StartsWith(line, <<"-">>) => YieldsChange("delete", line)
              /\ (StartsWith(line, <<" ">>) \/ line = <<>>) => YieldsChange("normal", line)]_vars

\* The old and the new numbers the lines of a hunk carry, in order.
OldNumbers(lines) ==
    SelectSeq([i \in 1..Len(lines) |-> lines[i].oldLineNumber], LAMBDA n : n # undefined)
NewNumbers(lines) ==
    SelectSeq([i \in 1..Len(lines) |-> lines[i].newLineNumber], LAMBDA n : n # undefined)

\* C25: in every parsed hunk the k-th line that carries an old number has
\* the number oldStart + k - 1 and the k-th line that carries a new number
\* has newStart + k - 1, whatever ignored lines were read in between and
\* whichever pairs were merged; a header without a length gives the count 1.
C25_Consecutive ==
    \A h \in 1..Len(AllHunks) :
        LET hunk == AllHunks[h]
            olds == OldNumbers(hunk.lines)
            news == NewNumbers(hunk.lines)
            m == HunkMatch(hunk.content)[1]
        IN  /\ \A k \in 1..Len(olds) : olds[k] = hunk.oldStart + k - 1
            /\ \A k \in 1..Len(news) : news[k] = hunk.newStart + k - 1
            /\ ~IsSome(m.g2) => hunk.oldLines = 1
            /\ ~IsSome(m.g4) => hunk.newLines = 1

\* A hunk whose header states no length is returned with a merged line
\* followed by a further numbered line.
C25_Witness ==
    /\ parsePc = "done"
    /\ \E h \in 1..Len(AllHunks) :
          /\ ~IsSome(HunkMatch(AllHunks[h].content)[1].g2)
          /\ AllHunks[h].oldLines = 1
          /\ Len(NewNumbers(AllHunks[h].lines)) >= 2
          /\ \E k \in 1..Len(AllHunks[h].lines) :
                /\ AllHunks[h].lines[k].type = "normal"
                /\ Len(AllHunks[h].lines[k].content) > 1
                /\ k < Len(AllHunks[h].lines)

\* C26: the parser returns one file for each '+++' line read, in the order
\* read, each with oldPath = newPath; the hunks of a file are those of the
\* headers read after its '+++' line and before the next one, and a header
\* read before the first '+++' line gives a hunk to no file.
C26_FilePerMarker ==
    parsePc = "done" =>
        /\ Len(files) = Len(headerLog)
        /\ \A f \in 1..Len(files) :
              /\ files[f].oldPath = files[f].newPath
              /\ [i \in 1..Len(files[f].hunks) |-> files[f].hunks[i].content] = headerLog[f]
        /\ Len(HunksOf(files)) = Len(Concat(headerLog))

\* Two files are returned, the first with one hunk and the second with two
\* hunks of different headers.
C26_Witness ==
    /\ parsePc = "done"
    /\ Len(files) = 2
    /\ Len(files[1].hunks) = 1
    /\ Len(files[2].hunks) = 2
    /\ files[2].hunks[1].content # files[2].hunks[2].content

\* C27: truncated is set only when a real difference of the two trees is
\* missing from the returned lists.
C27_TruncatedOnlyWhenLeftOut ==
    (treePc = "returned" /\ truncated) =>
        Len(added) + Len(removed) + Len(modified) < RealDifferences

\* C28: truncated or not, no path has two entries in the three returned
\* lists together; every added path is the path of a file node of 'to',
\* every removed path of a file node of 'from', every modified path of a
\* file node of each.
C28_ReportedOnce ==
    treePc = "responded" =>
        LET all == added \o removed \o modified
        IN  /\ \A i \in 1..Len(all) : \A j \in 1..Len(all) :
                  all[i].path = all[j].path => i = j
            /\ PathsOf(added) \subseteq FilePaths(toTree)
            /\ PathsOf(removed) \subseteq FilePaths(fromTree)
            /\ PathsOf(modified) \subseteq FilePaths(fromTree) \cap FilePaths(toTree)

\* A tree that holds a path twice, as a file and as a directory, is compared
\* with a tree that holds it once, and the path is reported.
C28_Witness ==
    /\ treePc = "responded"
    /\ \E i \in 1..Len(toTree) : \E j \in 1..Len(toTree) :
          /\ i # j
          /\ toTree[i].path = toTree[j].path
          /\ toTree[i].type # toTree[j].type
          /\ toTree[i].path \in PathsOf(added) \cup PathsOf(removed) \cup PathsOf(modified)
    /\ Len(fromTree) >= 1

\* The input read so far is one file with one hunk that is still open, whose
\* change lines, none of them blank, are as many as its header declares,
\* followed by the empty string that split('\n') gives after the final
\* newline.  One further line,
\* such as the '---' line, was read without effect.
WellFormedWithFinalNewline ==
    /\ files = <<>>
    /\ IsSome(currentFile) /\ currentFile[1].hunks = <<>>
    /\ IsSome(currentHunk)
    /\ Len(headerLog) = 1 /\ Len(headerLog[1]) = 1
    /\ LET changes == currentHunk[1].changes
           body == SubSeq(changes, 1, Len(changes) - 1)
       IN  /\ changes # <<>>
           /\ nLines = Len(changes) + 3
           /\ changes[Len(changes)].type = "normal"
           /\ changes[Len(changes)].content = <<>>
           /\ \A k \in 1..Len(body) : body[k].content # <<>>
           /\ Len(OldNumbers(body)) = currentHunk[1].oldLines
           /\ Len(NewNumbers(body)) = currentHunk[1].newLines

\* C29: with merging disabled, the hunk returned for a well-formed text that
\* ends with a newline has as many lines with an old number and as many
\* lines with a new number as its header declares: the empty string after
\* the final newline adds no line.
C29_DeclaredCounts ==
    [][(/\ parsePc = "loop" /\ parsePc' = "done"
        /\ ~opts.mergeModifiedLines
        /\ WellFormedWithFinalNewline) =>
           LET hunk == files'[1].hunks[1]
           IN  /\ Len(OldNumbers(hunk.lines)) = hunk.oldLines
               /\ Len(NewNumbers(hunk.lines)) = hunk.newLines]_vars

\* C30: the kind of a file does not depend on mergeModifiedLines.  Where the
\* input is one file whose only hunk is still open, the locals are the same
\* under either setting; the file returned then has the kind that the other
\* setting gives it, and the kind modify if the hunk has a raw delete and a
\* raw insert.
C30_KindWithoutOption ==
    [][(/\ parsePc = "loop" /\ parsePc' = "done"
        /\ files = <<>>
        /\ IsSome(currentFile) /\ currentFile[1].hunks = <<>>
        /\ IsSome(currentHunk)) =>
           LET other == [opts EXCEPT !.mergeModifiedLines = ~@]
               raw == currentHunk[1].changes
           IN  /\ files'[1].type = FinishParse(Locals, other)[1].type
               /\ (RawOfKind(raw, "delete") # {} /\ RawOfKind(raw, "insert") # {}) =>
                      files'[1].type = "modify"]_vars
====
